---- MODULE Spec2Model ----
(***************************************************************************)
(* Camera HAL of STMicroelectronics/hardware-peripheral-camera.            *)
(*                                                                         *)
(* Two deployments of the same service are modelled over one V4L2 driver   *)
(* queue: the HIDL 3.2 session (CameraDeviceSession + CameraTracker) and   *)
(* the AIDL stream (V4l2Stream under V4l2CameraDeviceSession).  Each run   *)
(* is one deployment, chosen in Init.  Three threads act in a run: a       *)
(* client thread submitting capture requests, a control thread calling     *)
(* configureStreams / flush / close, and the capture thread.  The          *)
(* hardware completes queued buffers on its own.                           *)
(***************************************************************************)
EXTENDS Integers, Sequences, FiniteSets, TLC

(* ------------------------------ bounds --------------------------------- *)
\* capture requests the client submits in one run
MaxReq == 2
\* output buffers of one request; buffer k of a request targets stream k
MaxK == 2
\* buffers the driver grants to RequestBuffers
PoolSize == 1
\* configureStreams, flush and close calls of the control thread in one run
MaxCtl == 3
\* exceptional events of one run: a request the session refuses, a frame
\* number past INT_MAX, a configuration the session or the driver refuses,
\* a failing dequeue, a failing conversion step
MaxFaults == 1
\* calls of the wrapper the threads sharing it make in a run
MaxOps == 4

StreamIds == 1..MaxK

(* --------------------------- integer widths ----------------------------- *)
\* A uint32_t is kept as its top bit and its low 31 bits, an int as an
\* integer: the conversions between the two are the two's complement ones.
IntMax == 2147483647
Uint32(n) == [msb |-> 0, rest |-> n]
\* uint32_t -> int, as in "return capture_id;" of trackCapture and in
\* "*capture_id = capture.id;" of popNextOutputBuffer
ToInt(u) == IF u.msb = 1 THEN (u.rest - IntMax) - 1 ELSE u.rest
\* int -> uint32_t, as in the call processCaptureResult(capture_id, ...)
ToUint32(i) ==
  IF i < 0 THEN [msb |-> 1, rest |-> (i + IntMax) + 1]
  ELSE [msb |-> 0, rest |-> i]

\* the frame number of the n-th request: the framework's counter, either
\* early in its life or past the point where it no longer fits an int
FrameNumbers(n) == {[msb |-> 0, rest |-> n], [msb |-> 1, rest |-> n]}

VARIABLES
  deployment,          \* "hidl" | "aidl"
  crashed,             \* the process died on undefined behaviour
  \* ---- client side
  nreq,                \* requests submitted so far
  nctl,                \* control calls made so far
  nfault,              \* exceptional events so far
  \* ---- V4L2Wrapper / driver
  format_,             \* V4L2Wrapper::format_ is set
  streaming,           \* VIDIOC_STREAMON in effect
  incoming,            \* driver queue of buffers to fill (VIDIOC_QBUF order)
  done,                \* filled buffers waiting for VIDIOC_DQBUF
  \* ---- session (HIDL)
  closed_, disconnected_, started_,
  previous_settings_,  \* previous_settings_.size() > 0
  v4l2_buffers_,       \* v4l2_buffers_.size()
  tracked_streams_,    \* ids of CameraTracker::tracked_streams_
  capture_list_,       \* CameraTracker::capture_list_
  tracked_settings_,   \* ids of CameraTracker::tracked_settings_
  flush_queue_lock_, flush_result_lock_, capture_wait_lock_,  \* owners
  signalled,           \* capture_active_ signalled while the thread waits
  \* ---- stream (AIDL)
  stream_alive,        \* the V4l2Stream object exists in stream_map_
  capture_active_,     \* V4l2Stream::capture_active_
  capture_queue_,      \* V4l2Stream::capture_queue_
  available_buffers_,  \* V4l2Stream::available_buffers_
  session_flush_mutex_, flush_mutex_, capture_mutex_, v4l2_buffer_mutex_,
  \* ---- threads
  clientPc, client,    \* position and locals of the client thread
  controlPc, control,  \* position and locals of the control thread
  capturePc, capture,  \* position and locals of the capture thread
  \* ---- what the framework observed
  accepted,            \* requests that were tracked / queued, in order
  results,             \* buffers handed to the callback, in order
  untracked,           \* ids passed to untrackCapture, in order
  lastConfigure,       \* outcome of the latest configureStreams call
  lastRequest,         \* the latest request without an output buffer or
                       \* without settings when none are stored, and the
                       \* status processCaptureRequest returned for it
  \* ---- V4L2Wrapper on its own, used by several threads
  connection_count_,   \* V4L2Wrapper::connection_count_
  device_fd_,          \* "open" when device_fd_.get() >= 0, else "closed"
  wrapper_format_,     \* V4L2Wrapper::format_: NoFormat or a StreamFormat
  device_lock_, connection_lock_,  \* owners
  device,              \* the driver's side of the open node
  user,                \* position and locals of each thread using the wrapper
  returned,            \* the wrapper call that returned last, and its value
  nops,                \* wrapper calls started so far
  \* ---- format negotiation and conversion functions on their own
  input,               \* the call being made and its arguments
  output,              \* what the call returned
  \* ---- stream configurations of the AIDL session on their own
  config_,             \* config_.streams: the available configurations
  stream_map_,         \* stream id -> the V4l2Stream configured for it
  configured           \* outcome of the latest configureStreams call

driverVars == <<format_, streaming, incoming, done>>
hidlVars == <<closed_, disconnected_, started_, previous_settings_,
              v4l2_buffers_, tracked_streams_, capture_list_,
              tracked_settings_, flush_queue_lock_, flush_result_lock_,
              capture_wait_lock_, signalled>>
aidlVars == <<stream_alive, capture_active_, capture_queue_,
              available_buffers_, session_flush_mutex_, flush_mutex_,
              capture_mutex_, v4l2_buffer_mutex_>>
threadVars == <<clientPc, client, controlPc, control, capturePc, capture>>
historyVars == <<accepted, results, untracked, lastConfigure, lastRequest>>
wrapperVars == <<connection_count_, device_fd_, wrapper_format_, device_lock_,
                 connection_lock_, device, user, returned, nops>>
configurationVars == <<config_, stream_map_, configured>>
\* the state of the parts that are checked on their own
libraryVars == <<input, output, configurationVars>>
sessionVars == <<deployment, crashed, nreq, nctl, nfault, driverVars, hidlVars,
                 aidlVars, threadVars, historyVars>>
vars == <<sessionVars, wrapperVars, libraryVars>>

Free == "free"
NoLocals == [op |-> "none"]
\* no StreamFormat: format_ is a null pointer
NoFormat == [type |-> "none", fourcc |-> "none", width |-> 0, height |-> 0]
\* the threads that share one V4L2Wrapper
WThreads == {"t1", "t2"}
\* a thread between two calls of the wrapper
Idle == [pc |-> "idle", op |-> "none", arg |-> NoFormat, res |-> 0,
         reported |-> NoFormat]
NoReturn == [op |-> "none", arg |-> NoFormat, value |-> "none"]
NoCall == [fn |-> "none"]
\* the V4L2 nodes of the camera, as the provider lists them: the auxiliary
\* node for the preview and the main node for the capture
ConfigStreams ==
  <<[node |-> "aux", usage |-> "Preview"],
    [node |-> "main", usage |-> "Capture"]>>

Init ==
  /\ deployment \in {"hidl", "aidl"}
  /\ crashed = FALSE
  /\ nreq = 0
  /\ nctl = 0
  /\ nfault = 0
  /\ format_ = FALSE
  /\ streaming = FALSE
  /\ incoming = <<>>
  /\ done = <<>>
  /\ closed_ = FALSE
  /\ disconnected_ = FALSE
  /\ started_ = FALSE
  /\ previous_settings_ = FALSE
  /\ v4l2_buffers_ = 0
  /\ tracked_streams_ = {}
  /\ capture_list_ = <<>>
  /\ tracked_settings_ = {}
  /\ flush_queue_lock_ = Free
  /\ flush_result_lock_ = Free
  /\ capture_wait_lock_ = Free
  /\ signalled = FALSE
  /\ stream_alive = FALSE
  /\ capture_active_ = FALSE
  /\ capture_queue_ = <<>>
  /\ available_buffers_ = <<>>
  /\ session_flush_mutex_ = Free
  /\ flush_mutex_ = Free
  /\ capture_mutex_ = Free
  /\ v4l2_buffer_mutex_ = Free
  /\ clientPc = "idle"
  /\ client = NoLocals
  /\ controlPc = "idle"
  /\ control = NoLocals
  /\ capturePc = IF deployment = "hidl" THEN "start" ELSE "none"
  /\ capture = NoLocals
  /\ accepted = <<>>
  /\ results = <<>>
  /\ untracked = <<>>
  /\ lastConfigure = [status |-> "none", active |-> FALSE, retry |-> FALSE,
                      acceptable |-> FALSE]
  /\ lastRequest = [n |-> 0, status |-> "none", outputs |-> 0,
                    settings |-> FALSE]
  /\ connection_count_ = 0
  /\ device_fd_ = "closed"
  /\ wrapper_format_ = NoFormat
  /\ device_lock_ = Free
  /\ connection_lock_ = Free
  /\ device = [format |-> NoFormat, filled |-> FALSE]
  /\ user = [t \in WThreads |->
              [local |-> Idle, errno |-> "none", held |-> 0]]
  /\ returned = NoReturn
  /\ nops = 0
  /\ input = NoCall
  /\ output = NoCall
  /\ config_ = ConfigStreams
  /\ stream_map_ = [id \in {} |-> NoLocals]
  /\ configured = [status |-> "none", undefined |-> FALSE, cleaned |-> 0]

(* ------------------------- V4L2Wrapper / driver ------------------------- *)
InSeq(x, s) == \E i \in 1..Len(s) : s[i] = x

\* V4L2Wrapper::EnqueueRequest: the queue after the call.  A buffer the
\* driver already holds is refused (QUEUED flag, or QBUF failing on a
\* filled buffer); nothing is queued without a format.
EnqueueRequest(q, d, fmt, index) ==
  IF fmt /\ ~InSeq(index, q) /\ ~InSeq(index, d) THEN Append(q, index) ELSE q

RECURSIVE EnqueueAll(_, _, _, _, _)
\* for (i = 0; i < n; ++i) EnqueueRequest(i)
EnqueueAll(q, d, fmt, i, n) ==
  IF i >= n THEN q
  ELSE EnqueueAll(EnqueueRequest(q, d, fmt, i), d, fmt, i + 1, n)

\* The hardware fills the oldest queued buffer.
HardwareComplete ==
  /\ ~crashed
  /\ streaming
  /\ incoming # <<>>
  /\ incoming' = Tail(incoming)
  /\ done' = Append(done, Head(incoming))
  /\ UNCHANGED <<deployment, wrapperVars, libraryVars, lastRequest, crashed,
                 nreq, nctl, nfault, format_, streaming, hidlVars, aidlVars,
                 threadVars, historyVars>>


\* V4L2Wrapper::StreamOn, a no-op returning -EINVAL without a format
StreamOn(fmt) == fmt

(* ---------------------------- CameraTracker ----------------------------- *)
\* the output buffers of a request, buffer k on stream k
OutputBuffers(frame, k) == [i \in 1..k |-> [streamId |-> i, frame |-> frame]]

trackCapture(list, request) ==
  Append(list, [id |-> request.frame,
                output_buffers |-> OutputBuffers(request.frame,
                                                 request.outputs),
                input_buffer |-> request.input,
                output_results |-> <<>>])

hasActiveCapture(list) == Len(list) > 0

\* position of the first capture with a pending output buffer, or 0
FirstWithOutput(list) ==
  IF \E i \in 1..Len(list) : Len(list[i].output_buffers) > 0
  THEN CHOOSE i \in 1..Len(list) :
         /\ Len(list[i].output_buffers) > 0
         /\ \A j \in 1..(i - 1) : Len(list[j].output_buffers) = 0
  ELSE 0

\* position of the first capture with this id, or 0
PositionOf(list, id) ==
  IF \E i \in 1..Len(list) : list[i].id = id
  THEN CHOOSE i \in 1..Len(list) :
         list[i].id = id /\ \A j \in 1..(i - 1) : list[j].id # id
  ELSE 0

\* popNextOutputBuffer: capture_id as the int the callers test, the buffer
\* and the list afterwards
popNextOutputBuffer(list) ==
  LET i == FirstWithOutput(list) IN
  IF i = 0
  THEN [capture_id |-> -1, buffer |-> [streamId |-> -1, frame |-> Uint32(0)],
        list |-> list]
  ELSE [capture_id |-> ToInt(list[i].id),
        buffer |-> Head(list[i].output_buffers),
        list |-> [list EXCEPT ![i].output_buffers = Tail(@)]]

\* saveOutputBuffer: the list afterwards (unchanged when the id is unknown)
saveOutputBuffer(list, buffer, id) ==
  LET i == PositionOf(list, id) IN
  IF i = 0 THEN list
  ELSE [list EXCEPT ![i].output_results = Append(@, buffer)]

\* isCaptureCompleted: 1, 0 or -1
isCaptureCompleted(list, id) ==
  LET i == PositionOf(list, id) IN
  IF i = 0 THEN -1
  ELSE IF Len(list[i].output_buffers) = 0 /\ ~list[i].input_buffer
       THEN 1 ELSE 0

popOutputResults(list, id) ==
  LET i == PositionOf(list, id) IN
  IF i = 0 THEN <<>> ELSE list[i].output_results

untrackCapture(list, id) ==
  LET i == PositionOf(list, id) IN
  IF i = 0 THEN list
  ELSE [j \in 1..(Len(list) - 1) |-> IF j < i THEN list[j] ELSE list[j + 1]]

\* output buffers the tracker still has to hand out
RECURSIVE PendingOutputs(_)
PendingOutputs(list) ==
  IF list = <<>> THEN 0
  ELSE Len(Head(list).output_buffers) + PendingOutputs(Tail(list))

(* ------------------------ CameraDeviceSession --------------------------- *)
init_fail_ == FALSE

initStatus ==
  IF init_fail_ THEN "INTERNAL_ERROR"
  ELSE IF disconnected_ THEN "CAMERA_DISCONNECTED"
  ELSE IF closed_ THEN "INTERNAL_ERROR"
  ELSE "OK"

\* the capture requests the client may submit as its n-th
Requests(n) ==
  [frame : FrameNumbers(n), outputs : 0..MaxK, input : BOOLEAN,
   settings : BOOLEAN, defect : {"none", "import", "metadata"}]

\* processCaptureRequestError(request): one result, every buffer in error
RequestErrorResult(request) ==
  [frame |-> request.frame, by |-> "request",
   buffers |-> [i \in 1..request.outputs |->
                  [streamId |-> i, frame |-> request.frame,
                   status |-> "ERROR", fault |-> "request",
                   by |-> "request"]]]

\* a verification that lets a request without output buffer through
RequestStatusAnyOutputs(request) ==
  IF initStatus = "INTERNAL_ERROR" THEN "ERROR_DEVICE"
  ELSE IF initStatus = "CAMERA_DISCONNECTED" THEN "CAMERA_DISCONNECTED"
  ELSE IF ~request.settings /\ ~previous_settings_ THEN "ILLEGAL_ARGUMENT"
  ELSE IF request.defect = "import" THEN "INTERNAL_ERROR"
  ELSE IF request.defect = "metadata" THEN "ILLEGAL_ARGUMENT"
  ELSE "OK"

\* processCaptureRequestVerification, ...Import and ...Metadata: the status
\* processOneCaptureRequest returns before the enqueue step, or "OK"
RequestStatus(request) ==
  IF initStatus = "INTERNAL_ERROR" THEN "ERROR_DEVICE"
  ELSE IF initStatus = "CAMERA_DISCONNECTED" THEN "CAMERA_DISCONNECTED"
  ELSE IF ~request.settings /\ ~previous_settings_ THEN "ILLEGAL_ARGUMENT"
  ELSE IF request.outputs < 1 THEN "ILLEGAL_ARGUMENT"
  ELSE IF request.defect = "import" THEN "INTERNAL_ERROR"
  ELSE IF request.defect = "metadata" THEN "ILLEGAL_ARGUMENT"
  ELSE "OK"

\* processCaptureRequestMetadata has run and stored previous_settings_
ReachedMetadata(request) ==
  /\ initStatus = "OK"
  /\ request.settings \/ previous_settings_
  /\ request.outputs >= 1
  /\ request.defect # "import"

\* processOneCaptureRequest under flush_queue_lock_, up to and including
\* trackCapture: verification, import, metadata, then in
\* processCaptureRequestEnqueue the stream is turned on, the pool queued and
\* the request tracked.  A refused request is answered at once.
processOneCaptureRequest ==
  /\ ~crashed
  /\ deployment = "hidl"
  /\ clientPc = "idle"
  /\ nreq < MaxReq
  /\ flush_queue_lock_ = Free
  /\ \E request \in Requests(nreq + 1) :
       LET status == RequestStatus(request)
           faulty == \/ status \notin {"OK", "CAMERA_DISCONNECTED"}
                     \/ request.frame.msb = 1
       IN
       /\ faulty => nfault < MaxFaults
       /\ nfault' = IF faulty THEN nfault + 1 ELSE nfault
       /\ nreq' = nreq + 1
       /\ previous_settings_' =
            (previous_settings_ \/ ReachedMetadata(request))
       /\ lastRequest' =
            IF request.outputs = 0 \/ (~request.settings /\ ~previous_settings_)
            THEN [n |-> nreq + 1, status |-> status,
                  outputs |-> request.outputs, settings |-> request.settings]
            ELSE lastRequest
       /\ IF status = "OK"
          THEN /\ flush_queue_lock_' = "client"
               /\ IF started_
                  THEN UNCHANGED <<streaming, incoming>>
                  ELSE /\ streaming' = (streaming \/ StreamOn(format_))
                       /\ incoming' = EnqueueAll(incoming, done, format_, 0,
                                                 v4l2_buffers_)
               /\ started_' = TRUE
               /\ capture_list_' = trackCapture(capture_list_, request)
               /\ accepted' = Append(accepted,
                                     [frame |-> request.frame,
                                      outputs |-> request.outputs,
                                      input |-> request.input])
               /\ clientPc' = IF ToInt(request.frame) < 0 THEN "device"
                              ELSE "settings"
               /\ client' = [op |-> "request", frame |-> request.frame]
               /\ UNCHANGED results
          ELSE IF status = "ERROR_DEVICE"
          THEN /\ flush_queue_lock_' = "client"
               /\ clientPc' = "device"
               /\ client' = [op |-> "request", frame |-> request.frame]
               /\ UNCHANGED <<streaming, incoming, started_, capture_list_,
                              accepted, results>>
          ELSE /\ results' = Append(results, RequestErrorResult(request))
               /\ UNCHANGED <<flush_queue_lock_, clientPc, client, streaming,
                              incoming, started_, capture_list_, accepted>>
  /\ UNCHANGED <<deployment, wrapperVars, libraryVars, crashed, nctl, format_,
                 done, closed_, disconnected_, v4l2_buffers_,
                 tracked_streams_, tracked_settings_, flush_result_lock_,
                 capture_wait_lock_, signalled, aidlVars, controlPc, control,
                 capturePc, capture, untracked, lastConfigure>>

\* setCaptureSettings, in its own section of capture_tracker_lock_
processCaptureRequestSettings ==
  /\ ~crashed
  /\ deployment = "hidl"
  /\ clientPc = "settings"
  /\ tracked_settings_' = tracked_settings_ \cup {client.frame}
  /\ clientPc' = "signal"
  /\ UNCHANGED <<deployment, wrapperVars, libraryVars, lastRequest, crashed,
                 nreq, nctl, nfault, driverVars, closed_, disconnected_,
                 started_, previous_settings_, v4l2_buffers_,
                 tracked_streams_, capture_list_, flush_queue_lock_,
                 flush_result_lock_, capture_wait_lock_, signalled, aidlVars,
                 client, controlPc, control, capturePc, capture, historyVars>>

\* capture_active_.signal() under capture_wait_lock_, then the return of
\* processOneCaptureRequest releases flush_queue_lock_
processCaptureRequestSignal ==
  /\ ~crashed
  /\ deployment = "hidl"
  /\ clientPc = "signal"
  /\ capture_wait_lock_ = Free
  /\ signalled' = (signalled \/ capturePc = "waiting")
  /\ flush_queue_lock_' = Free
  /\ clientPc' = "idle"
  /\ client' = NoLocals
  /\ UNCHANGED <<deployment, wrapperVars, libraryVars, lastRequest, crashed,
                 nreq, nctl, nfault, driverVars, closed_, disconnected_,
                 started_, previous_settings_, v4l2_buffers_,
                 tracked_streams_, capture_list_, tracked_settings_,
                 flush_result_lock_, capture_wait_lock_, aidlVars, controlPc,
                 control, capturePc, capture, historyVars>>

\* processCaptureRequestError(request, ERROR_DEVICE): clearCaptures(), then
\* close().  On an open session close() calls flush(), whose Autolock of
\* flush_queue_lock_ finds the mutex held by this very thread: the thread
\* stays at "closing".  On a closed session close() signals and joins.
processCaptureRequestErrorDevice ==
  /\ ~crashed
  /\ deployment = "hidl"
  /\ clientPc = "device"
  /\ capture_list_' = <<>>
  /\ tracked_settings_' = {}
  /\ clientPc' = IF closed_ THEN "join" ELSE "closing"
  /\ UNCHANGED <<deployment, wrapperVars, libraryVars, lastRequest, crashed,
                 nreq, nctl, nfault, driverVars, closed_, disconnected_,
                 started_, previous_settings_, v4l2_buffers_,
                 tracked_streams_, flush_queue_lock_, flush_result_lock_,
                 capture_wait_lock_, signalled, aidlVars, client, controlPc,
                 control, capturePc, capture, historyVars>>

\* close() of an already closed session, from the ERROR_DEVICE path: signal,
\* join, and the return of processOneCaptureRequest
processCaptureRequestErrorReturn ==
  /\ ~crashed
  /\ deployment = "hidl"
  /\ clientPc = "join"
  /\ capture_wait_lock_ = Free
  /\ capturePc = "exited"
  /\ flush_queue_lock_' = Free
  /\ clientPc' = "idle"
  /\ client' = NoLocals
  /\ UNCHANGED <<deployment, wrapperVars, libraryVars, lastRequest, crashed,
                 nreq, nctl, nfault, driverVars, closed_, disconnected_,
                 started_, previous_settings_, v4l2_buffers_,
                 tracked_streams_, capture_list_, tracked_settings_,
                 flush_result_lock_, capture_wait_lock_, signalled, aidlVars,
                 controlPc, control, capturePc, capture, historyVars>>

(* ----------------------- conversion of one buffer ----------------------- *)
\* the stream whose format and size are the driver's: its buffers are copied
SameAsDriver(streamId) == streamId = 1

\* what can go wrong while one buffer is converted: mapping the destination,
\* canonicalising the source (CachedFrame::SetSource), sizing the scaled
\* frame, scaling (ImageProcessor::Scale), the final ConvertFormat
ConversionFaults(streamId) ==
  IF streamId \notin tracked_streams_ THEN {"none"}
  ELSE IF SameAsDriver(streamId) THEN {"none", "map"}
  ELSE {"none", "map", "canonicalise", "size", "scale", "format"}

\* CachedFrame::Convert: Scale's result is dropped, ConvertFormat's returned
Convert(fault) ==
  IF fault = "size" THEN "EINVAL"
  ELSE IF fault = "format" THEN "EINVAL"
  ELSE "OK"

\* processCaptureResultConversion: SetSource's result is dropped
processCaptureResultConversion(streamId, fault) ==
  IF streamId \notin tracked_streams_ THEN "INTERNAL_ERROR"
  ELSE IF fault = "map" THEN "INTERNAL_ERROR"
  ELSE IF SameAsDriver(streamId) THEN "OK"
  ELSE IF Convert(fault) # "OK" THEN "INTERNAL_ERROR"
  ELSE "OK"

\* the conversion dereferences the settings pointer
ConversionReadsSettings(streamId, fault) ==
  /\ streamId \in tracked_streams_
  /\ fault # "map"
  /\ ~SameAsDriver(streamId)

\* processCaptureResult(capture_id, stream_buffer): the tracker, the callback
\* log and the untrack log afterwards; deref tells that *settings was read
processCaptureResult(list, id, buffer) ==
  LET saved == saveOutputBuffer(list, buffer, id)
      res == IF PositionOf(list, id) = 0 THEN -1
             ELSE isCaptureCompleted(saved, id)
  IN IF res > 0
     THEN [list |-> untrackCapture(saved, id),
           settings |-> tracked_settings_ \ {id},
           results |-> Append(results,
                              [frame |-> id, by |-> "result",
                               buffers |-> popOutputResults(saved, id)]),
           untracked |-> Append(untracked, id),
           deref |-> TRUE]
     ELSE [list |-> saved, settings |-> tracked_settings_,
           results |-> results, untracked |-> untracked, deref |-> FALSE]

(* ------------------------- captureRequestThread ------------------------- *)
\* capture_wait_lock_.lock() at thread entry
captureRequestThreadStart ==
  /\ ~crashed
  /\ deployment = "hidl"
  /\ capturePc = "start"
  /\ capture_wait_lock_ = Free
  /\ capture_wait_lock_' = "capture"
  /\ capturePc' = "top"
  /\ UNCHANGED <<deployment, wrapperVars, libraryVars, lastRequest, crashed,
                 nreq, nctl, nfault, driverVars, closed_, disconnected_,
                 started_, previous_settings_, v4l2_buffers_,
                 tracked_streams_, capture_list_, tracked_settings_,
                 flush_queue_lock_, flush_result_lock_, signalled, aidlVars,
                 clientPc, client, controlPc, control, capture, historyVars>>

\* loop head: isClosed(), hasActiveCapture(), capture_active_.wait()
captureRequestThreadTop ==
  /\ ~crashed
  /\ deployment = "hidl"
  /\ capturePc = "top"
  /\ IF closed_
     THEN /\ capturePc' = "exited"
          /\ capture_wait_lock_' = Free
          /\ UNCHANGED signalled
     ELSE IF ~hasActiveCapture(capture_list_)
     THEN /\ capturePc' = "waiting"
          /\ capture_wait_lock_' = Free
          /\ signalled' = FALSE
     ELSE /\ capturePc' = "dequeue"
          /\ UNCHANGED <<capture_wait_lock_, signalled>>
  /\ UNCHANGED <<deployment, wrapperVars, libraryVars, lastRequest, crashed,
                 nreq, nctl, nfault, driverVars, closed_, disconnected_,
                 started_, previous_settings_, v4l2_buffers_,
                 tracked_streams_, capture_list_, tracked_settings_,
                 flush_queue_lock_, flush_result_lock_, aidlVars, clientPc,
                 client, controlPc, control, capture, historyVars>>

\* capture_active_.wait() returns: signalled, and the mutex re-acquired
captureRequestThreadWake ==
  /\ ~crashed
  /\ deployment = "hidl"
  /\ capturePc = "waiting"
  /\ signalled
  /\ capture_wait_lock_ = Free
  /\ capture_wait_lock_' = "capture"
  /\ signalled' = FALSE
  /\ capturePc' = "top"
  /\ UNCHANGED <<deployment, wrapperVars, libraryVars, lastRequest, crashed,
                 nreq, nctl, nfault, driverVars, closed_, disconnected_,
                 started_, previous_settings_, v4l2_buffers_,
                 tracked_streams_, capture_list_, tracked_settings_,
                 flush_queue_lock_, flush_result_lock_, aidlVars, clientPc,
                 client, controlPc, control, capture, historyVars>>

\* DequeueRequest answers -EAGAIN: "continue" with capture_wait_lock_ held
captureRequestThreadAgain ==
  /\ ~crashed
  /\ deployment = "hidl"
  /\ capturePc = "dequeue"
  /\ ~format_ \/ done = <<>>
  /\ capturePc' = "top"
  /\ UNCHANGED <<deployment, wrapperVars, libraryVars, lastRequest, crashed,
                 nreq, nctl, nfault, driverVars, hidlVars, aidlVars, clientPc,
                 client, controlPc, control, capture, historyVars>>

\* DequeueRequest hands out the oldest filled buffer
captureRequestThreadDequeue ==
  /\ ~crashed
  /\ deployment = "hidl"
  /\ capturePc = "dequeue"
  /\ format_
  /\ done # <<>>
  /\ done' = Tail(done)
  /\ capture' = [op |-> "result", res |-> "OK", index |-> Head(done)]
  /\ capture_wait_lock_' = Free
  /\ capturePc' = "result"
  /\ UNCHANGED <<deployment, wrapperVars, libraryVars, lastRequest, crashed,
                 nreq, nctl, nfault, format_, streaming, incoming, closed_,
                 disconnected_, started_, previous_settings_, v4l2_buffers_,
                 tracked_streams_, capture_list_, tracked_settings_,
                 flush_queue_lock_, flush_result_lock_, signalled, aidlVars,
                 clientPc, client, controlPc, control, historyVars>>

\* DequeueRequest fails with -ENODEV: the ioctl failed other than by EAGAIN
captureRequestThreadDequeueFailure ==
  /\ ~crashed
  /\ deployment = "hidl"
  /\ capturePc = "dequeue"
  /\ format_
  /\ nfault < MaxFaults
  /\ nfault' = nfault + 1
  /\ capture' = [op |-> "result", res |-> "ENODEV", index |-> 0]
  /\ capture_wait_lock_' = Free
  /\ capturePc' = "result"
  /\ UNCHANGED <<deployment, wrapperVars, libraryVars, lastRequest, crashed,
                 nreq, nctl, driverVars, closed_, disconnected_, started_,
                 previous_settings_, v4l2_buffers_, tracked_streams_,
                 capture_list_, tracked_settings_, flush_queue_lock_,
                 flush_result_lock_, signalled, aidlVars, clientPc, client,
                 controlPc, control, historyVars>>

\* Autolock of flush_result_lock_, then popNextOutputBuffer; with nothing to
\* complete the loop goes on, re-taking capture_wait_lock_ first
captureRequestThreadPop ==
  /\ ~crashed
  /\ deployment = "hidl"
  /\ capturePc = "result"
  /\ flush_result_lock_ = Free
  /\ LET pop == popNextOutputBuffer(capture_list_) IN
     /\ capture_list_' = pop.list
     /\ IF pop.capture_id < 0
        THEN /\ capture_wait_lock_ = Free
             /\ capture_wait_lock_' = "capture"
             /\ capturePc' = "top"
             /\ capture' = NoLocals
             /\ UNCHANGED flush_result_lock_
        ELSE /\ flush_result_lock_' = "capture"
             /\ capturePc' = "process"
             /\ capture' = [op |-> "process", res |-> capture.res,
                            index |-> capture.index,
                            capture_id |-> pop.capture_id,
                            buffer |-> pop.buffer]
             /\ UNCHANGED capture_wait_lock_
  /\ UNCHANGED <<deployment, wrapperVars, libraryVars, lastRequest, crashed,
                 nreq, nctl, nfault, driverVars, closed_, disconnected_,
                 started_, previous_settings_, v4l2_buffers_,
                 tracked_streams_, tracked_settings_, flush_queue_lock_,
                 signalled, aidlVars, clientPc, client, controlPc, control,
                 historyVars>>

\* conversion, EnqueueRequest(index), then processCaptureBufferError or
\* processCaptureResult, then capture_wait_lock_.lock() and the end of the
\* loop body, where the Autolock of flush_result_lock_ goes out of scope.
\* A null settings pointer or an index past the end of v4l2_buffers_ is
\* undefined behaviour: the process dies or goes on.
captureRequestThreadProcess ==
  /\ ~crashed
  /\ deployment = "hidl"
  /\ capturePc = "process"
  /\ capture_wait_lock_ = Free
  /\ \E fault \in ConversionFaults(capture.buffer.streamId) :
     \E survives \in BOOLEAN :
       LET id == ToUint32(capture.capture_id)
           dequeued == capture.res = "OK"
           injected == dequeued /\ fault # "none"
           status == IF dequeued
                     THEN processCaptureResultConversion(
                            capture.buffer.streamId, fault)
                     ELSE "INTERNAL_ERROR"
           buffer == [streamId |-> capture.buffer.streamId,
                      frame |-> capture.buffer.frame,
                      status |-> IF status = "OK" THEN "OK" ELSE "ERROR",
                      fault |-> IF dequeued THEN fault ELSE "dequeue",
                      by |-> "capture"]
           after == processCaptureResult(capture_list_, id, buffer)
           undefined ==
             \/ dequeued /\ capture.index >= v4l2_buffers_
             \/ /\ dequeued
                /\ ConversionReadsSettings(capture.buffer.streamId, fault)
                /\ id \notin tracked_settings_
             \/ after.deref /\ id \notin tracked_settings_
       IN /\ injected => nfault < MaxFaults
          /\ ~dequeued => fault = "none"
          /\ nfault' = IF injected THEN nfault + 1 ELSE nfault
          /\ IF undefined /\ ~survives
             THEN /\ crashed' = TRUE
                  /\ UNCHANGED <<incoming, capture_list_, tracked_settings_,
                                 results, untracked, capturePc, capture,
                                 flush_result_lock_, capture_wait_lock_>>
             ELSE /\ (undefined \/ survives)
                  /\ incoming' = IF dequeued
                                 THEN EnqueueRequest(incoming, done, format_,
                                                     capture.index)
                                 ELSE incoming
                  /\ capture_list_' = after.list
                  /\ tracked_settings_' = after.settings
                  /\ results' = after.results
                  /\ untracked' = after.untracked
                  /\ capture_wait_lock_' = "capture"
                  /\ flush_result_lock_' = Free
                  /\ capturePc' = "top"
                  /\ capture' = NoLocals
                  /\ UNCHANGED crashed
  /\ UNCHANGED <<deployment, wrapperVars, libraryVars, lastRequest, nreq,
                 nctl, format_, streaming, done, closed_, disconnected_,
                 started_, previous_settings_, v4l2_buffers_,
                 tracked_streams_, flush_queue_lock_, signalled, aidlVars,
                 clientPc, client, controlPc, control, accepted,
                 lastConfigure>>

(* ------------------------------- flush ---------------------------------- *)
\* buffers the callback received in error from flush()
FlushErrors(log) ==
  Cardinality({jk \in (1..Len(log)) \X (1..MaxK) :
                 /\ jk[2] <= Len(log[jk[1]].buffers)
                 /\ log[jk[1]].buffers[jk[2]].by = "flush"})

\* V4L2Wrapper::StreamOff: VIDIOC_STREAMOFF hands every buffer back
StreamOff(fmt, q) == IF fmt THEN <<>> ELSE q

\* flush() entry: initStatus() is read before any lock is taken
flush ==
  /\ ~crashed
  /\ deployment = "hidl"
  /\ controlPc = "idle"
  /\ nctl < MaxCtl
  /\ nctl' = nctl + 1
  /\ control' = [op |-> "flush", status |-> initStatus, pending |-> 0,
                 before |-> 0]
  /\ controlPc' = "flushLockQueue"
  /\ UNCHANGED <<deployment, wrapperVars, libraryVars, lastRequest, crashed,
                 nreq, nfault, driverVars, hidlVars, aidlVars, clientPc,
                 client, capturePc, capture, historyVars>>

\* Mutex::Autolock _l(flush_queue_lock_)
flushLockQueue ==
  /\ ~crashed
  /\ deployment = "hidl"
  /\ controlPc = "flushLockQueue"
  /\ flush_queue_lock_ = Free
  /\ flush_queue_lock_' = "control"
  /\ controlPc' = "flushLockResult"
  /\ UNCHANGED <<deployment, wrapperVars, libraryVars, lastRequest, crashed,
                 nreq, nctl, nfault, driverVars, closed_, disconnected_,
                 started_, previous_settings_, v4l2_buffers_,
                 tracked_streams_, capture_list_, tracked_settings_,
                 flush_result_lock_, capture_wait_lock_, signalled, aidlVars,
                 clientPc, client, control, capturePc, capture, historyVars>>

\* a flush() that does not wait for flush_result_lock_
flushLockResultNoWait ==
  /\ ~crashed
  /\ deployment = "hidl"
  /\ controlPc = "flushLockResult"
  /\ flush_result_lock_' = "control"
  /\ control' = [control EXCEPT !.pending = PendingOutputs(capture_list_),
                                  !.before = FlushErrors(results)]
  /\ controlPc' = "flushLoop"
  /\ UNCHANGED <<deployment, wrapperVars, libraryVars, lastRequest, crashed,
                 nreq, nctl, nfault, driverVars, closed_, disconnected_,
                 started_, previous_settings_, v4l2_buffers_,
                 tracked_streams_, capture_list_, tracked_settings_,
                 flush_queue_lock_, capture_wait_lock_, signalled, aidlVars,
                 clientPc, client, capturePc, capture, historyVars>>

\* Mutex::Autolock _l2(flush_result_lock_): from here the flush owns the
\* tracker's pending buffers
flushLockResult ==
  /\ ~crashed
  /\ deployment = "hidl"
  /\ controlPc = "flushLockResult"
  /\ flush_result_lock_ = Free
  /\ flush_result_lock_' = "control"
  /\ control' = [control EXCEPT !.pending = PendingOutputs(capture_list_),
                                  !.before = FlushErrors(results)]
  /\ controlPc' = "flushLoop"
  /\ UNCHANGED <<deployment, wrapperVars, libraryVars, lastRequest, crashed,
                 nreq, nctl, nfault, driverVars, closed_, disconnected_,
                 started_, previous_settings_, v4l2_buffers_,
                 tracked_streams_, capture_list_, tracked_settings_,
                 flush_queue_lock_, capture_wait_lock_, signalled, aidlVars,
                 clientPc, client, capturePc, capture, historyVars>>

\* one turn of "while (hasActiveCapture())": popNextOutputBuffer, then
\* processCaptureBufferError(ERROR_BUFFER) when a buffer was popped
flushPop ==
  /\ ~crashed
  /\ deployment = "hidl"
  /\ controlPc = "flushLoop"
  /\ control.status = "OK"
  /\ hasActiveCapture(capture_list_)
  /\ LET pop == popNextOutputBuffer(capture_list_)
         id == ToUint32(pop.capture_id)
         buffer == [streamId |-> pop.buffer.streamId,
                    frame |-> pop.buffer.frame, status |-> "ERROR",
                    fault |-> "flush", by |-> "flush"]
     IN IF pop.capture_id >= 0
        THEN \E survives \in BOOLEAN :
               LET after == processCaptureResult(pop.list, id, buffer)
                   undefined == after.deref /\ id \notin tracked_settings_
               IN IF undefined /\ ~survives
                  THEN /\ crashed' = TRUE
                       /\ UNCHANGED <<capture_list_, tracked_settings_,
                                      results, untracked>>
                  ELSE /\ (undefined \/ survives)
                       /\ capture_list_' = after.list
                       /\ tracked_settings_' = after.settings
                       /\ results' = after.results
                       /\ untracked' = after.untracked
                       /\ UNCHANGED crashed
        ELSE /\ capture_list_' = pop.list
             /\ UNCHANGED <<crashed, tracked_settings_, results, untracked>>
  /\ UNCHANGED <<deployment, wrapperVars, libraryVars, lastRequest, nreq,
                 nctl, nfault, driverVars, closed_, disconnected_, started_,
                 previous_settings_, v4l2_buffers_, tracked_streams_,
                 flush_queue_lock_, flush_result_lock_, capture_wait_lock_,
                 signalled, aidlVars, clientPc, client, controlPc, control,
                 capturePc, capture, accepted, lastConfigure>>

\* a flush() whose loop stops after the first buffer it returned in error
flushReturnEarly ==
  /\ ~crashed
  /\ deployment = "hidl"
  /\ controlPc = "flushLoop"
  /\ \/ control.status # "OK"
     \/ ~hasActiveCapture(capture_list_)
     \/ FlushErrors(results) > control.before
  /\ IF control.status = "OK"
     THEN /\ streaming' = (streaming /\ ~format_)
          /\ incoming' = StreamOff(format_, incoming)
          /\ done' = StreamOff(format_, done)
          /\ started_' = FALSE
     ELSE UNCHANGED <<streaming, incoming, done, started_>>
  /\ flush_queue_lock_' = Free
  /\ flush_result_lock_' = Free
  /\ IF control.op = "close"
     THEN /\ controlPc' = "closeRest"
          /\ control' = [op |-> "close"]
     ELSE /\ controlPc' = "idle"
          /\ control' = NoLocals
  /\ UNCHANGED <<deployment, wrapperVars, libraryVars, lastRequest, crashed,
                 nreq, nctl, nfault, format_, closed_, disconnected_,
                 previous_settings_, v4l2_buffers_, tracked_streams_,
                 capture_list_, tracked_settings_, capture_wait_lock_,
                 signalled, aidlVars, clientPc, client, capturePc, capture,
                 historyVars>>

\* the loop is over (or the status was not OK): StreamOff(), started_ = false
\* and the return of flush(), where both Autolocks go out of scope
flushReturn ==
  /\ ~crashed
  /\ deployment = "hidl"
  /\ controlPc = "flushLoop"
  /\ control.status # "OK" \/ ~hasActiveCapture(capture_list_)
  /\ IF control.status = "OK"
     THEN /\ streaming' = (streaming /\ ~format_)
          /\ incoming' = StreamOff(format_, incoming)
          /\ done' = StreamOff(format_, done)
          /\ started_' = FALSE
     ELSE UNCHANGED <<streaming, incoming, done, started_>>
  /\ flush_queue_lock_' = Free
  /\ flush_result_lock_' = Free
  /\ IF control.op = "close"
     THEN /\ controlPc' = "closeRest"
          /\ control' = [op |-> "close"]
     ELSE /\ controlPc' = "idle"
          /\ control' = NoLocals
  /\ UNCHANGED <<deployment, wrapperVars, libraryVars, lastRequest, crashed,
                 nreq, nctl, nfault, format_, closed_, disconnected_,
                 previous_settings_, v4l2_buffers_, tracked_streams_,
                 capture_list_, tracked_settings_, capture_wait_lock_,
                 signalled, aidlVars, clientPc, client, capturePc, capture,
                 historyVars>>

(* ------------------------------- close ---------------------------------- *)
\* close() entry: flush() unless the session is already closed
close ==
  /\ ~crashed
  /\ deployment = "hidl"
  /\ controlPc = "idle"
  /\ nctl < MaxCtl
  /\ nctl' = nctl + 1
  /\ control' = [op |-> "close", status |-> initStatus, pending |-> 0,
                 before |-> 0]
  /\ controlPc' = IF closed_ THEN "closeSignal" ELSE "flushLockQueue"
  /\ UNCHANGED <<deployment, wrapperVars, libraryVars, lastRequest, crashed,
                 nreq, nfault, driverVars, hidlVars, aidlVars, clientPc,
                 client, capturePc, capture, historyVars>>

\* after flush(): v4l2_buffers_.clear(), connection_.reset() (Disconnect
\* closes the device and resets format_), disconnected_ = true,
\* clearBuffers(), clearStreams(), closed_ = true
closeRest ==
  /\ ~crashed
  /\ deployment = "hidl"
  /\ controlPc = "closeRest"
  /\ v4l2_buffers_' = 0
  /\ format_' = FALSE
  /\ streaming' = FALSE
  /\ incoming' = <<>>
  /\ done' = <<>>
  /\ disconnected_' = TRUE
  /\ tracked_streams_' = {}
  /\ closed_' = TRUE
  /\ controlPc' = "closeSignal"
  /\ UNCHANGED <<deployment, wrapperVars, libraryVars, lastRequest, crashed,
                 nreq, nctl, nfault, started_, previous_settings_,
                 capture_list_, tracked_settings_, flush_queue_lock_,
                 flush_result_lock_, capture_wait_lock_, signalled, aidlVars,
                 clientPc, client, control, capturePc, capture, historyVars>>

\* capture_active_.signal() under capture_wait_lock_
closeSignal ==
  /\ ~crashed
  /\ deployment = "hidl"
  /\ controlPc = "closeSignal"
  /\ capture_wait_lock_ = Free
  /\ signalled' = (signalled \/ capturePc = "waiting")
  /\ controlPc' = "closeJoin"
  /\ UNCHANGED <<deployment, wrapperVars, libraryVars, lastRequest, crashed,
                 nreq, nctl, nfault, driverVars, closed_, disconnected_,
                 started_, previous_settings_, v4l2_buffers_,
                 tracked_streams_, capture_list_, tracked_settings_,
                 flush_queue_lock_, flush_result_lock_, capture_wait_lock_,
                 aidlVars, clientPc, client, control, capturePc, capture,
                 historyVars>>

\* capture_result_thread_->join(); the framework makes no call after close()
closeJoin ==
  /\ ~crashed
  /\ deployment = "hidl"
  /\ controlPc = "closeJoin"
  /\ capturePc = "exited"
  /\ controlPc' = "closed"
  /\ control' = NoLocals
  /\ UNCHANGED <<deployment, wrapperVars, libraryVars, lastRequest, crashed,
                 nreq, nctl, nfault, driverVars, hidlVars, aidlVars, clientPc,
                 client, capturePc, capture, historyVars>>

(* -------------------------- configureStreams ---------------------------- *)
\* the stream configurations the framework may request: every stream, no
\* stream, or one the property checks refuse (rotation, stream counts, a
\* changed property of a configured stream)
Configurations ==
  {[streams |-> StreamIds, valid |-> TRUE],
   [streams |-> {}, valid |-> TRUE],
   [streams |-> StreamIds, valid |-> FALSE]}

\* the request is one an idle open session carries out: the one valid
\* configuration, which is then requested again after a refusal, and a
\* driver that grants the format and the buffers
Acceptable(configuration, driverOk) ==
  configuration.streams # {} /\ configuration.valid /\ driverOk

\* a verification that does not look at the tracker
configureStreamsVerificationNoTracker(configuration) ==
  IF initStatus # "OK" THEN initStatus
  ELSE IF configuration.streams = {} THEN "ILLEGAL_ARGUMENT"
  ELSE IF ~configuration.valid THEN "ILLEGAL_ARGUMENT"
  ELSE "OK"

configureStreamsVerification(configuration) ==
  IF hasActiveCapture(capture_list_) THEN "INTERNAL_ERROR"
  ELSE IF initStatus # "OK" THEN initStatus
  ELSE IF configuration.streams = {} THEN "ILLEGAL_ARGUMENT"
  ELSE IF ~configuration.valid THEN "ILLEGAL_ARGUMENT"
  ELSE "OK"

\* configureStreams(): the verification; then configureStreamClean
\* (StreamOff, the pool released, unused streams untracked, started_ = false,
\* previous_settings_ emptied), configureDriverStream (SetFormat,
\* RequestBuffers, the pool mapped; the driver may refuse) and
\* configureStreamResult (trackStream)
configureStreams ==
  /\ ~crashed
  /\ deployment = "hidl"
  /\ controlPc = "idle"
  /\ nctl < MaxCtl
  /\ nctl' = nctl + 1
  /\ \E configuration \in Configurations :
     \E driverOk \in BOOLEAN :
       LET status == configureStreamsVerification(configuration)
           faulty == \/ ~driverOk
                     \/ status = "ILLEGAL_ARGUMENT"
       IN
       /\ ~driverOk => status = "OK"
       /\ faulty => nfault < MaxFaults
       /\ nfault' = IF faulty THEN nfault + 1 ELSE nfault
       /\ lastConfigure' =
            [status |-> IF driverOk THEN status ELSE "INTERNAL_ERROR",
             active |-> hasActiveCapture(capture_list_),
             retry |-> /\ lastConfigure.active
                       /\ lastConfigure.status = "INTERNAL_ERROR"
                       /\ lastConfigure.acceptable
                       /\ Acceptable(configuration, driverOk),
             acceptable |-> Acceptable(configuration, driverOk)]
       /\ IF status = "OK"
          THEN /\ streaming' = (streaming /\ ~format_)
               /\ incoming' = StreamOff(format_, incoming)
               /\ done' = StreamOff(format_, done)
               /\ started_' = FALSE
               /\ previous_settings_' = FALSE
               /\ format_' = (format_ \/ driverOk)
               /\ v4l2_buffers_' = IF driverOk THEN PoolSize ELSE 0
               /\ tracked_streams_' =
                    IF driverOk THEN configuration.streams
                    ELSE tracked_streams_ \cap configuration.streams
          ELSE UNCHANGED <<format_, streaming, incoming, done, started_,
                           previous_settings_, v4l2_buffers_,
                           tracked_streams_>>
  /\ UNCHANGED <<deployment, wrapperVars, libraryVars, lastRequest, crashed,
                 nreq, closed_, disconnected_, capture_list_,
                 tracked_settings_, flush_queue_lock_, flush_result_lock_,
                 capture_wait_lock_, signalled, aidlVars, clientPc, client,
                 controlPc, control, capturePc, capture, accepted, results,
                 untracked>>

(* ===================== AIDL: V4l2CameraDeviceSession ===================== *)
\* what only the HIDL session uses
trackerVars == <<disconnected_, tracked_streams_, capture_list_,
                 tracked_settings_, flush_queue_lock_, flush_result_lock_,
                 capture_wait_lock_, signalled, untracked>>

\* V4l2CameraDeviceSession::initStatus
aidlInitStatus == IF closed_ THEN "INTERNAL_ERROR" ELSE "OK"

\* the one stream id the framework configures on the AIDL session
StreamId == 1

\* the capture requests the client may submit as its n-th: one output
\* buffer on the stream, or none
StreamRequests(n) ==
  [frame : {Uint32(n)}, outputs : 0..1, settings : BOOLEAN,
   defect : {"none", "import", "metadata"}]

\* processCaptureRequestVerification, ...Metadata and the stream lookup and
\* importBuffer of ...Enqueue: the status before the buffer is queued
StreamRequestStatus(request) ==
  IF aidlInitStatus = "INTERNAL_ERROR" THEN "INTERNAL_ERROR"
  ELSE IF ~request.settings /\ ~previous_settings_ THEN "ILLEGAL_ARGUMENT"
  ELSE IF request.outputs = 0 THEN "ILLEGAL_ARGUMENT"
  ELSE IF request.defect = "metadata" THEN "ILLEGAL_ARGUMENT"
  ELSE IF ~stream_alive THEN "ILLEGAL_ARGUMENT"
  ELSE IF request.defect = "import" THEN "INTERNAL_ERROR"
  ELSE "OK"

\* processCaptureRequestMetadata has run and stored previous_settings_
StreamReachedMetadata(request) ==
  /\ aidlInitStatus = "OK"
  /\ request.settings \/ previous_settings_
  /\ request.outputs >= 1

\* processCaptureRequest: lock_guard of the session's flush_mutex_, then
\* processOneCaptureRequest up to the call of V4l2Stream::processCaptureBuffer.
\* A refused request returns its status; no buffer is handed back.
aidlProcessCaptureRequest ==
  /\ ~crashed
  /\ deployment = "aidl"
  /\ clientPc = "idle"
  /\ nreq < MaxReq
  /\ session_flush_mutex_ = Free
  /\ \E request \in StreamRequests(nreq + 1) :
       LET status == StreamRequestStatus(request) IN
       /\ status # "OK" => nfault < MaxFaults
       /\ nfault' = IF status # "OK" THEN nfault + 1 ELSE nfault
       /\ nreq' = nreq + 1
       /\ previous_settings_' =
            (previous_settings_ \/ StreamReachedMetadata(request))
       /\ lastRequest' =
            IF request.outputs = 0 \/ (~request.settings /\ ~previous_settings_)
            THEN [n |-> nreq + 1, status |-> status,
                  outputs |-> request.outputs, settings |-> request.settings]
            ELSE lastRequest
       /\ IF status = "OK"
          THEN /\ session_flush_mutex_' = "client"
               /\ clientPc' = "buffer"
               /\ client' = [op |-> "request", frame |-> request.frame]
          ELSE UNCHANGED <<session_flush_mutex_, clientPc, client>>
  /\ UNCHANGED <<deployment, wrapperVars, libraryVars, crashed, nctl,
                 driverVars, closed_, started_, v4l2_buffers_, trackerVars,
                 stream_alive, capture_active_, capture_queue_,
                 available_buffers_, flush_mutex_, capture_mutex_,
                 v4l2_buffer_mutex_, controlPc, control, capturePc, capture,
                 accepted, results, lastConfigure>>

RECURSIVE PushAll(_, _, _)
\* for (i = 0; i < v4l2_buffers_.size(); ++i) available_buffers_.push(i)
PushAll(q, i, n) == IF i >= n THEN q ELSE PushAll(Append(q, i), i + 1, n)

\* V4l2Stream::processCaptureBuffer under v4l2_buffer_mutex_: the stream is
\* turned on and the pool made available when not started, then the front
\* index is popped and queued to the driver.  With no index available, or
\* the driver refusing the index, the call returns INTERNAL_ERROR.  A call
\* on a stream that close() has destroyed is undefined.
processCaptureBuffer ==
  /\ ~crashed
  /\ deployment = "aidl"
  /\ clientPc = "buffer"
  /\ v4l2_buffer_mutex_ = Free
  /\ \E survives \in BOOLEAN :
       LET on == started_ \/ StreamOn(format_)
           avail == IF started_ THEN available_buffers_
                    ELSE PushAll(available_buffers_, 0, v4l2_buffers_)
           queued == EnqueueRequest(incoming, done, format_, Head(avail))
       IN
       IF ~stream_alive /\ ~survives
       THEN /\ crashed' = TRUE
            /\ UNCHANGED <<streaming, incoming, started_, available_buffers_,
                           v4l2_buffer_mutex_, session_flush_mutex_, clientPc,
                           client, accepted>>
       ELSE /\ (~stream_alive \/ survives)
            /\ UNCHANGED crashed
            /\ streaming' = IF started_ THEN streaming
                            ELSE (streaming \/ StreamOn(format_))
            /\ started_' = TRUE
            /\ IF avail = <<>>
               THEN /\ available_buffers_' = avail
                    /\ UNCHANGED <<incoming, v4l2_buffer_mutex_, accepted>>
                    /\ session_flush_mutex_' = Free
                    /\ clientPc' = "idle"
                    /\ client' = NoLocals
               ELSE /\ available_buffers_' = Tail(avail)
                    /\ incoming' = queued
                    /\ IF queued = incoming
                       THEN /\ UNCHANGED <<v4l2_buffer_mutex_, accepted>>
                            /\ session_flush_mutex_' = Free
                            /\ clientPc' = "idle"
                            /\ client' = NoLocals
                       ELSE /\ v4l2_buffer_mutex_' = "client"
                            /\ clientPc' = "push"
                            /\ accepted' = Append(accepted,
                                                  [frame |-> client.frame,
                                                   outputs |-> 1,
                                                   input |-> FALSE])
                            /\ UNCHANGED <<session_flush_mutex_, client>>
  /\ UNCHANGED <<deployment, wrapperVars, libraryVars, lastRequest, nreq,
                 nctl, nfault, format_, done, closed_, previous_settings_,
                 v4l2_buffers_, trackerVars, stream_alive, capture_active_,
                 capture_queue_, flush_mutex_, capture_mutex_, controlPc,
                 control, capturePc, capture, results, lastConfigure>>

\* capture_queue_.push(tsb) under capture_mutex_, notify_one, and the return
\* of processCaptureBuffer and of processCaptureRequest
processCaptureBufferPush ==
  /\ ~crashed
  /\ deployment = "aidl"
  /\ clientPc = "push"
  /\ capture_mutex_ = Free
  /\ capture_queue_' = Append(capture_queue_,
                              [streamId |-> StreamId, frame |-> client.frame])
  /\ v4l2_buffer_mutex_' = Free
  /\ session_flush_mutex_' = Free
  /\ clientPc' = "idle"
  /\ client' = NoLocals
  /\ UNCHANGED <<deployment, wrapperVars, libraryVars, lastRequest, crashed,
                 nreq, nctl, nfault, driverVars, closed_, started_,
                 previous_settings_, v4l2_buffers_, trackerVars, stream_alive,
                 capture_active_, available_buffers_, flush_mutex_,
                 capture_mutex_, controlPc, control, capturePc, capture,
                 accepted, results, lastConfigure>>

(* ==================== AIDL: V4l2Stream capture thread ==================== *)
\* capture_cond_.wait under capture_mutex_ until the stream is stopped or a
\* buffer is queued; "break" when stopped, else capture_lock.unlock()
streamThreadWait ==
  /\ ~crashed
  /\ deployment = "aidl"
  /\ capturePc = "wait"
  /\ capture_mutex_ = Free
  /\ ~capture_active_ \/ capture_queue_ # <<>>
  /\ capturePc' = IF ~capture_active_ THEN "exited" ELSE "dequeue"
  /\ UNCHANGED <<deployment, wrapperVars, libraryVars, lastRequest, crashed,
                 nreq, nctl, nfault, driverVars, hidlVars, aidlVars, clientPc,
                 client, controlPc, control, capture, historyVars>>

\* DequeueRequest answers -EAGAIN: sleep 1 ms and "continue", no lock held
streamThreadAgain ==
  /\ ~crashed
  /\ deployment = "aidl"
  /\ capturePc = "dequeue"
  /\ ~format_ \/ done = <<>>
  /\ capturePc' = "wait"
  /\ UNCHANGED <<deployment, wrapperVars, libraryVars, lastRequest, crashed,
                 nreq, nctl, nfault, driverVars, hidlVars, aidlVars, clientPc,
                 client, controlPc, control, capture, historyVars>>

\* DequeueRequest hands out the oldest filled buffer
streamThreadDequeue ==
  /\ ~crashed
  /\ deployment = "aidl"
  /\ capturePc = "dequeue"
  /\ format_
  /\ done # <<>>
  /\ done' = Tail(done)
  /\ capture' = [op |-> "result", res |-> "OK", index |-> Head(done)]
  /\ capturePc' = "lock"
  /\ UNCHANGED <<deployment, wrapperVars, libraryVars, lastRequest, crashed,
                 nreq, nctl, nfault, format_, streaming, incoming, hidlVars,
                 aidlVars, clientPc, client, controlPc, control, historyVars>>

\* DequeueRequest fails with -ENODEV
streamThreadDequeueFailure ==
  /\ ~crashed
  /\ deployment = "aidl"
  /\ capturePc = "dequeue"
  /\ format_
  /\ nfault < MaxFaults
  /\ nfault' = nfault + 1
  /\ capture' = [op |-> "result", res |-> "ENODEV", index |-> 0]
  /\ capturePc' = "lock"
  /\ UNCHANGED <<deployment, wrapperVars, libraryVars, lastRequest, crashed,
                 nreq, nctl, driverVars, hidlVars, aidlVars, clientPc, client,
                 controlPc, control, historyVars>>

\* lock_guard of flush_mutex_, capture_lock.lock(), then the front of
\* capture_queue_ is popped; with an empty queue the loop goes on and the
\* dequeued index is dropped
streamThreadPop ==
  /\ ~crashed
  /\ deployment = "aidl"
  /\ capturePc = "lock"
  /\ flush_mutex_ = Free
  /\ capture_mutex_ = Free
  /\ IF capture_queue_ = <<>>
     THEN /\ capturePc' = "wait"
          /\ capture' = NoLocals
          /\ UNCHANGED <<flush_mutex_, capture_queue_>>
     ELSE /\ flush_mutex_' = "capture"
          /\ capture_queue_' = Tail(capture_queue_)
          /\ capture' = [op |-> "process", res |-> capture.res,
                         index |-> capture.index,
                         buffer |-> Head(capture_queue_)]
          /\ capturePc' = "process"
  /\ UNCHANGED <<deployment, wrapperVars, libraryVars, lastRequest, crashed,
                 nreq, nctl, nfault, driverVars, hidlVars, stream_alive,
                 capture_active_, available_buffers_, session_flush_mutex_,
                 capture_mutex_, v4l2_buffer_mutex_, clientPc, client,
                 controlPc, control, historyVars>>

\* V4l2Stream::processCaptureResultConversion: as the session's, for a
\* stream whose format may differ from the driver's
streamConversion(fault) ==
  IF fault = "map" THEN "INTERNAL_ERROR"
  ELSE IF Convert(fault) # "OK" THEN "INTERNAL_ERROR"
  ELSE "OK"

\* the conversion of v4l2_buffers_[index], available_buffers_.push(index)
\* under v4l2_buffer_mutex_, then processCaptureBufferError or
\* processCaptureBufferResult: one capture result for the one buffer.  An
\* index past the end of v4l2_buffers_ is undefined behaviour.
streamThreadProcess ==
  /\ ~crashed
  /\ deployment = "aidl"
  /\ capturePc = "process"
  /\ \E fault \in {"none", "map", "canonicalise", "size", "scale", "format"} :
     \E survives \in BOOLEAN :
       LET dequeued == capture.res = "OK"
           injected == dequeued /\ fault # "none"
           status == IF dequeued THEN streamConversion(fault)
                     ELSE "INTERNAL_ERROR"
           buffer == [streamId |-> capture.buffer.streamId,
                      frame |-> capture.buffer.frame,
                      status |-> IF status = "OK" THEN "OK" ELSE "ERROR",
                      fault |-> IF dequeued THEN fault ELSE "dequeue",
                      by |-> "capture"]
           undefined == dequeued /\ capture.index >= v4l2_buffers_
       IN /\ injected => nfault < MaxFaults
          /\ ~dequeued => fault = "none"
          /\ dequeued => v4l2_buffer_mutex_ = Free
          /\ nfault' = IF injected THEN nfault + 1 ELSE nfault
          /\ IF undefined /\ ~survives
             THEN /\ crashed' = TRUE
                  /\ UNCHANGED <<available_buffers_, results, flush_mutex_,
                                 capturePc, capture>>
             ELSE /\ (undefined \/ survives)
                  /\ available_buffers_' =
                       IF dequeued
                       THEN Append(available_buffers_, capture.index)
                       ELSE available_buffers_
                  /\ results' = Append(results,
                                       [frame |-> capture.buffer.frame,
                                        by |-> "result",
                                        buffers |-> <<buffer>>])
                  /\ flush_mutex_' = Free
                  /\ capturePc' = "wait"
                  /\ capture' = NoLocals
                  /\ UNCHANGED crashed
  /\ UNCHANGED <<deployment, wrapperVars, libraryVars, lastRequest, nreq,
                 nctl, driverVars, hidlVars, stream_alive, capture_active_,
                 capture_queue_, session_flush_mutex_, capture_mutex_,
                 v4l2_buffer_mutex_, clientPc, client, controlPc, control,
                 accepted, untracked, lastConfigure>>

(* ================= AIDL: flush, close, configureStreams ================== *)
\* V4l2CameraDeviceSession::flush: lock_guard of the session's flush_mutex_,
\* initStatus(), then the flush of every stream of stream_map_
aidlFlush ==
  /\ ~crashed
  /\ deployment = "aidl"
  /\ controlPc = "idle"
  /\ nctl < MaxCtl
  /\ session_flush_mutex_ = Free
  /\ nctl' = nctl + 1
  /\ IF aidlInitStatus = "OK" /\ stream_alive
     THEN /\ session_flush_mutex_' = "control"
          /\ control' = [op |-> "flush", status |-> "OK", pending |-> 0,
                         before |-> 0]
          /\ controlPc' = "streamFlush"
     ELSE UNCHANGED <<session_flush_mutex_, control, controlPc>>
  /\ UNCHANGED <<deployment, wrapperVars, libraryVars, lastRequest, crashed,
                 nreq, nfault, driverVars, hidlVars, stream_alive,
                 capture_active_, capture_queue_, available_buffers_,
                 flush_mutex_, capture_mutex_, v4l2_buffer_mutex_, clientPc,
                 client, capturePc, capture, historyVars>>

\* V4l2Stream::flush: lock_guard of flush_mutex_, unique_lock of
\* capture_mutex_
streamFlushLock ==
  /\ ~crashed
  /\ deployment = "aidl"
  /\ controlPc = "streamFlush"
  /\ flush_mutex_ = Free
  /\ capture_mutex_ = Free
  /\ flush_mutex_' = "control"
  /\ capture_mutex_' = "control"
  /\ control' = [control EXCEPT !.pending = Len(capture_queue_),
                                  !.before = FlushErrors(results)]
  /\ controlPc' = "streamFlushLoop"
  /\ UNCHANGED <<deployment, wrapperVars, libraryVars, lastRequest, crashed,
                 nreq, nctl, nfault, driverVars, hidlVars, stream_alive,
                 capture_active_, capture_queue_, available_buffers_,
                 session_flush_mutex_, v4l2_buffer_mutex_, clientPc, client,
                 capturePc, capture, historyVars>>

\* one turn of "while (!capture_queue_.empty())": the front is popped and
\* handed to processCaptureBufferError, capture_mutex_ released meanwhile
streamFlushPop ==
  /\ ~crashed
  /\ deployment = "aidl"
  /\ controlPc = "streamFlushLoop"
  /\ capture_queue_ # <<>>
  /\ LET tsb == Head(capture_queue_)
         buffer == [streamId |-> tsb.streamId, frame |-> tsb.frame,
                    status |-> "ERROR", fault |-> "flush", by |-> "flush"]
     IN results' = Append(results, [frame |-> tsb.frame, by |-> "result",
                                    buffers |-> <<buffer>>])
  /\ capture_queue_' = Tail(capture_queue_)
  /\ UNCHANGED <<deployment, wrapperVars, libraryVars, lastRequest, crashed,
                 nreq, nctl, nfault, driverVars, hidlVars, stream_alive,
                 capture_active_, available_buffers_, session_flush_mutex_,
                 flush_mutex_, capture_mutex_, v4l2_buffer_mutex_, clientPc,
                 client, controlPc, control, capturePc, capture, accepted,
                 untracked, lastConfigure>>

\* the queue is empty: available_buffers_ reset under v4l2_buffer_mutex_
\* (capture_mutex_ still held), StreamOff(), started_ = false, and the
\* return of V4l2Stream::flush to the session's flush or to ~V4l2Stream
streamFlushReturn ==
  /\ ~crashed
  /\ deployment = "aidl"
  /\ controlPc = "streamFlushLoop"
  /\ capture_queue_ = <<>>
  /\ v4l2_buffer_mutex_ = Free
  /\ available_buffers_' = <<>>
  /\ streaming' = (streaming /\ ~format_)
  /\ incoming' = StreamOff(format_, incoming)
  /\ done' = StreamOff(format_, done)
  /\ started_' = FALSE
  /\ flush_mutex_' = Free
  /\ capture_mutex_' = Free
  /\ IF control.op = "close"
     THEN /\ controlPc' = "streamDestroy"
          /\ control' = [op |-> "close"]
          /\ UNCHANGED session_flush_mutex_
     ELSE /\ controlPc' = "idle"
          /\ control' = NoLocals
          /\ session_flush_mutex_' = Free
  /\ UNCHANGED <<deployment, wrapperVars, libraryVars, lastRequest, crashed,
                 nreq, nctl, nfault, format_, closed_, previous_settings_,
                 v4l2_buffers_, trackerVars, stream_alive, capture_active_,
                 capture_queue_, v4l2_buffer_mutex_, clientPc, client,
                 capturePc, capture, accepted, results, lastConfigure>>

\* V4l2CameraDeviceSession::close: stream_map_.clear() runs ~V4l2Stream,
\* which starts with flush(); no session lock is taken
aidlClose ==
  /\ ~crashed
  /\ deployment = "aidl"
  /\ controlPc = "idle"
  /\ nctl < MaxCtl
  /\ nctl' = nctl + 1
  /\ IF stream_alive
     THEN /\ control' = [op |-> "close", status |-> aidlInitStatus,
                         pending |-> 0, before |-> 0]
          /\ controlPc' = "streamFlush"
          /\ UNCHANGED closed_
     ELSE /\ closed_' = TRUE
          /\ controlPc' = "closed"
          /\ UNCHANGED control
  /\ UNCHANGED <<deployment, wrapperVars, libraryVars, lastRequest, crashed,
                 nreq, nfault, driverVars, started_, previous_settings_,
                 v4l2_buffers_, trackerVars, aidlVars, clientPc, client,
                 capturePc, capture, accepted, results, lastConfigure>>

\* ~V4l2Stream after flush(): v4l2_buffers_.clear(), then capture_active_ =
\* false under capture_mutex_ and notify_all
streamDestroy ==
  /\ ~crashed
  /\ deployment = "aidl"
  /\ controlPc = "streamDestroy"
  /\ capture_mutex_ = Free
  /\ v4l2_buffers_' = 0
  /\ capture_active_' = FALSE
  /\ controlPc' = "streamJoin"
  /\ UNCHANGED <<deployment, wrapperVars, libraryVars, lastRequest, crashed,
                 nreq, nctl, nfault, driverVars, closed_, started_,
                 previous_settings_, trackerVars, stream_alive,
                 capture_queue_, available_buffers_, session_flush_mutex_,
                 flush_mutex_, capture_mutex_, v4l2_buffer_mutex_, clientPc,
                 client, control, capturePc, capture, accepted, results,
                 lastConfigure>>

\* capture_result_thread_->join(); the members are destroyed (the wrapper's
\* connection with them), then closed_ = true in close()
streamJoin ==
  /\ ~crashed
  /\ deployment = "aidl"
  /\ controlPc = "streamJoin"
  /\ capturePc = "exited"
  /\ stream_alive' = FALSE
  /\ format_' = FALSE
  /\ streaming' = FALSE
  /\ incoming' = <<>>
  /\ done' = <<>>
  /\ closed_' = TRUE
  /\ controlPc' = "closed"
  /\ control' = NoLocals
  /\ UNCHANGED <<deployment, wrapperVars, libraryVars, lastRequest, crashed,
                 nreq, nctl, nfault, started_, previous_settings_,
                 v4l2_buffers_, trackerVars, capture_active_, capture_queue_,
                 available_buffers_, session_flush_mutex_, flush_mutex_,
                 capture_mutex_, v4l2_buffer_mutex_, clientPc, client,
                 capturePc, capture, accepted, results, lastConfigure>>

\* V4l2CameraDeviceSession::configureStreams for the one stream: the
\* verification, then V4l2Stream::update of the stream when it exists, else
\* V4l2Stream::Create (connection, configureDriver, the capture thread)
aidlConfigureStreams ==
  /\ ~crashed
  /\ deployment = "aidl"
  /\ controlPc = "idle"
  /\ nctl < MaxCtl
  /\ nctl' = nctl + 1
  /\ \E valid \in BOOLEAN :
     \E driverOk \in BOOLEAN :
       LET status == IF aidlInitStatus # "OK" THEN aidlInitStatus
                     ELSE IF ~valid THEN "ILLEGAL_ARGUMENT"
                     ELSE IF stream_alive THEN "OK"
                     ELSE IF ~driverOk THEN "INTERNAL_ERROR"
                     ELSE "OK"
           faulty == ~driverOk \/ ~valid
       IN
       /\ ~driverOk => (aidlInitStatus = "OK" /\ valid /\ ~stream_alive)
       /\ faulty => nfault < MaxFaults
       /\ nfault' = IF faulty THEN nfault + 1 ELSE nfault
       /\ lastConfigure' = [status |-> status,
                            active |-> capture_queue_ # <<>>,
                            retry |-> FALSE,
                            acceptable |-> valid /\ driverOk]
       /\ IF status = "OK" /\ ~stream_alive
          THEN /\ format_' = TRUE
               /\ v4l2_buffers_' = PoolSize
               /\ stream_alive' = TRUE
               /\ capture_active_' = TRUE
               /\ capturePc' = "wait"
          ELSE UNCHANGED <<format_, v4l2_buffers_, stream_alive,
                           capture_active_, capturePc>>
  /\ UNCHANGED <<deployment, wrapperVars, libraryVars, lastRequest, crashed,
                 nreq, streaming, incoming, done, closed_, started_,
                 previous_settings_, trackerVars, capture_queue_,
                 available_buffers_, session_flush_mutex_, flush_mutex_,
                 capture_mutex_, v4l2_buffer_mutex_, clientPc, client,
                 controlPc, control, capture, accepted, results>>

Next ==
  \/ HardwareComplete
  \/ processOneCaptureRequest
  \/ processCaptureRequestSettings
  \/ processCaptureRequestSignal
  \/ processCaptureRequestErrorDevice
  \/ processCaptureRequestErrorReturn
  \/ captureRequestThreadStart
  \/ captureRequestThreadTop
  \/ captureRequestThreadWake
  \/ captureRequestThreadAgain
  \/ captureRequestThreadDequeue
  \/ captureRequestThreadDequeueFailure
  \/ captureRequestThreadPop
  \/ captureRequestThreadProcess
  \/ flush
  \/ flushLockQueue
  \/ flushLockResult
  \/ flushPop
  \/ flushReturn
  \/ close
  \/ closeRest
  \/ closeSignal
  \/ closeJoin
  \/ configureStreams
  \/ aidlProcessCaptureRequest
  \/ processCaptureBuffer
  \/ processCaptureBufferPush
  \/ streamThreadWait
  \/ streamThreadAgain
  \/ streamThreadDequeue
  \/ streamThreadDequeueFailure
  \/ streamThreadPop
  \/ streamThreadProcess
  \/ aidlFlush
  \/ streamFlushLock
  \/ streamFlushPop
  \/ streamFlushReturn
  \/ aidlClose
  \/ streamDestroy
  \/ streamJoin
  \/ aidlConfigureStreams

Spec == Init /\ [][Next]_vars

(* ------------------------------ scheduling ------------------------------ *)
\* Each thread that can take a step eventually takes one.  The calls of the
\* framework (a new request, a new control call) are under no obligation.
ClientStep ==
  \/ processCaptureRequestSettings
  \/ processCaptureRequestSignal
  \/ processCaptureRequestErrorDevice
  \/ processCaptureRequestErrorReturn
  \/ processCaptureBuffer
  \/ processCaptureBufferPush

CaptureStep ==
  \/ captureRequestThreadStart
  \/ captureRequestThreadTop
  \/ captureRequestThreadWake
  \/ captureRequestThreadAgain
  \/ captureRequestThreadDequeue
  \/ captureRequestThreadPop
  \/ captureRequestThreadProcess
  \/ streamThreadWait
  \/ streamThreadAgain
  \/ streamThreadDequeue
  \/ streamThreadPop
  \/ streamThreadProcess

ControlStep ==
  \/ flushLockQueue
  \/ flushLockResult
  \/ flushPop
  \/ flushReturn
  \/ closeRest
  \/ closeSignal
  \/ closeJoin
  \/ streamFlushLock
  \/ streamFlushPop
  \/ streamFlushReturn
  \/ streamDestroy
  \/ streamJoin

\* the threads are scheduled fairly; the hardware may stop completing
FairSpec ==
  /\ Spec
  /\ WF_vars(ClientStep)
  /\ WF_vars(CaptureStep)
  /\ WF_vars(ControlStep)

(* ===================== V4L2Wrapper used concurrently ===================== *)
\* The wrapper on its own: threads that create and destroy Connection
\* objects and call SetFormat and DequeueRequest on the shared wrapper.

\* the formats the threads ask for, and the ones the driver may report back:
\* VIDIOC_S_FMT adjusts what it cannot do, and may answer with another type
WrapperFormats ==
  {[type |-> "capture", fourcc |-> "YUYV", width |-> 640, height |-> 480],
   [type |-> "capture", fourcc |-> "YUYV", width |-> 320, height |-> 240]}

DriverAnswers ==
  WrapperFormats \cup
    {[type |-> "mplane", fourcc |-> "YUYV", width |-> 640, height |-> 480]}

\* StreamFormat::operator==
SameFormat(a, b) ==
  /\ a # NoFormat
  /\ b # NoFormat
  /\ a.type = b.type
  /\ a.fourcc = b.fourcc
  /\ a.width = b.width
  /\ a.height = b.height

\* V4L2Wrapper::Connected
Connected == device_fd_ = "open"

\* the call of thread t returns value; the thread is between two calls again
Returns(t, value) ==
  /\ user' = [user EXCEPT ![t].local = Idle]
  /\ returned' = [op |-> user[t].local.op, arg |-> user[t].local.arg,
                  value |-> value]

\* a Connect that counts a connection although open() failed
ConnectCountingFailure(t) ==
  /\ user[t].local.pc = "idle"
  /\ nops < MaxOps
  /\ connection_lock_ = Free
  /\ nops' = nops + 1
  /\ IF Connected
     THEN /\ connection_count_' = connection_count_ + 1
          /\ user' = [user EXCEPT ![t].held = @ + 1]
          /\ returned' = [op |-> "Connect", arg |-> NoFormat,
                          value |-> "OK"]
          /\ UNCHANGED <<device_fd_, connection_lock_>>
     ELSE \E opened \in BOOLEAN :
            IF opened
            THEN /\ device_fd_' = "open"
                 /\ connection_count_' = connection_count_ + 1
                 /\ connection_lock_' = t
                 /\ user' = [user EXCEPT ![t].local =
                               [Idle EXCEPT !.pc = "query", !.op = "Connect"]]
                 /\ UNCHANGED returned
            ELSE /\ connection_count_' = connection_count_ + 1
                 /\ returned' = [op |-> "Connect", arg |-> NoFormat,
                               value |-> "ENODEV"]
                 /\ UNCHANGED user
                 /\ UNCHANGED <<device_fd_, connection_lock_>>
  /\ UNCHANGED <<sessionVars, libraryVars, wrapper_format_, device_lock_,
                 device>>

\* V4L2Wrapper::Connect from the constructor of a Connection, under
\* connection_lock_: count a connection of an open device, or open the node,
\* count the connection and go on to the extended control query.  A
\* Connection whose Connect failed is not held: its destructor does nothing.
Connect(t) ==
  /\ user[t].local.pc = "idle"
  /\ nops < MaxOps
  /\ connection_lock_ = Free
  /\ nops' = nops + 1
  /\ IF Connected
     THEN /\ connection_count_' = connection_count_ + 1
          /\ user' = [user EXCEPT ![t].held = @ + 1]
          /\ returned' = [op |-> "Connect", arg |-> NoFormat,
                          value |-> "OK"]
          /\ UNCHANGED <<device_fd_, connection_lock_>>
     ELSE \E opened \in BOOLEAN :
            IF opened
            THEN /\ device_fd_' = "open"
                 /\ connection_count_' = connection_count_ + 1
                 /\ connection_lock_' = t
                 /\ user' = [user EXCEPT ![t].local =
                               [Idle EXCEPT !.pc = "query", !.op = "Connect"]]
                 /\ UNCHANGED returned
            ELSE /\ returned' = [op |-> "Connect", arg |-> NoFormat,
                               value |-> "ENODEV"]
                 /\ UNCHANGED user
                 /\ UNCHANGED <<device_fd_, connection_count_,
                                connection_lock_>>
  /\ UNCHANGED <<sessionVars, libraryVars, wrapper_format_, device_lock_,
                 device>>

\* Connect, after the open: ioctlLocked(VIDIOC_QUERY_EXT_CTRL) under
\* device_lock_, then the return releases connection_lock_
ConnectQuery(t) ==
  /\ user[t].local.pc = "query"
  /\ device_lock_ = Free
  /\ connection_lock_' = Free
  /\ user' = [user EXCEPT ![t].local = Idle, ![t].held = @ + 1]
  /\ returned' = [op |-> "Connect", arg |-> NoFormat, value |-> "OK"]
  /\ UNCHANGED <<sessionVars, libraryVars, connection_count_, device_fd_,
                 wrapper_format_, device_lock_, device, nops>>

\* V4L2Wrapper::Disconnect from the destructor of a Connection whose Connect
\* succeeded, under connection_lock_ alone: the last one closes the node and
\* drops format_
Disconnect(t) ==
  /\ user[t].local.pc = "idle"
  /\ user[t].held > 0
  /\ nops < MaxOps
  /\ connection_lock_ = Free
  /\ nops' = nops + 1
  /\ user' = [user EXCEPT ![t].held = @ - 1]
  /\ returned' = [op |-> "Disconnect", arg |-> NoFormat, value |-> "OK"]
  /\ IF connection_count_ = 0
     THEN UNCHANGED <<connection_count_, device_fd_, wrapper_format_, device>>
     ELSE /\ connection_count_' = connection_count_ - 1
          /\ IF connection_count_ - 1 > 0
             THEN UNCHANGED <<device_fd_, wrapper_format_, device>>
             ELSE /\ device_fd_' = "closed"
                  /\ wrapper_format_' = NoFormat
                  /\ device' = [format |-> NoFormat, filled |-> FALSE]
  /\ UNCHANGED <<sessionVars, libraryVars, device_lock_, connection_lock_>>

\* V4L2Wrapper::SetFormat up to its ioctlLocked: nothing to do when the
\* format asked for is the one recorded
SetFormat(t) ==
  /\ user[t].local.pc = "idle"
  /\ nops < MaxOps
  /\ nops' = nops + 1
  /\ \E resolved_format \in WrapperFormats :
       IF SameFormat(resolved_format, wrapper_format_)
       THEN /\ returned' = [op |-> "SetFormat", arg |-> resolved_format,
                            value |-> "OK"]
            /\ UNCHANGED user
       ELSE /\ user' = [user EXCEPT ![t].local =
                          [Idle EXCEPT !.pc = "lock", !.op = "SetFormat",
                                       !.arg = resolved_format]]
            /\ UNCHANGED returned
  /\ UNCHANGED <<sessionVars, libraryVars, connection_count_, device_fd_,
                 wrapper_format_, device_lock_, connection_lock_, device>>

\* V4L2Wrapper::DequeueRequest up to its ioctlLocked: without a recorded
\* format it answers -EAGAIN at once
DequeueRequest(t) ==
  /\ user[t].local.pc = "idle"
  /\ nops < MaxOps
  /\ nops' = nops + 1
  /\ IF wrapper_format_ = NoFormat
     THEN /\ returned' = [op |-> "DequeueRequest", arg |-> NoFormat,
                          value |-> "EAGAIN"]
          /\ UNCHANGED user
     ELSE /\ user' = [user EXCEPT ![t].local =
                        [Idle EXCEPT !.pc = "lock", !.op = "DequeueRequest"]]
          /\ UNCHANGED returned
  /\ UNCHANGED <<sessionVars, libraryVars, connection_count_, device_fd_,
                 wrapper_format_, device_lock_, connection_lock_, device>>

\* ioctlLocked: lock_guard of device_lock_ and the test of Connected(); a
\* wrapper that is not connected answers -ENODEV and leaves errno alone
ioctlLocked(t) ==
  /\ user[t].local.pc = "lock"
  /\ device_lock_ = Free
  /\ IF Connected
     THEN /\ device_lock_' = t
          /\ user' = [user EXCEPT ![t].local.pc = "ioctl"]
     ELSE /\ user' = [user EXCEPT ![t].local.pc = "return",
                                  ![t].local.res = -1]
          /\ UNCHANGED device_lock_
  /\ UNCHANGED <<sessionVars, libraryVars, returned, connection_count_,
                 device_fd_, wrapper_format_, connection_lock_, device, nops>>

\* ioctlLocked: the ioctl itself on device_fd_.get(), and the release of
\* device_lock_.  VIDIOC_S_FMT is refused or answered with the format the
\* driver settled on; VIDIOC_DQBUF hands over a filled buffer, or fails with
\* EAGAIN when there is none, or fails for good.  On a descriptor closed in
\* the meantime the ioctl fails with EBADF.
ioctl(t) ==
  /\ user[t].local.pc = "ioctl"
  /\ device_lock_' = Free
  /\ IF ~Connected
     THEN /\ user' = [user EXCEPT ![t].local.pc = "return",
                                  ![t].local.res = -1,
                                  ![t].errno = "EBADF"]
          /\ UNCHANGED device
     ELSE IF user[t].local.op = "SetFormat"
     THEN \/ /\ user' = [user EXCEPT ![t].local.pc = "return",
                                     ![t].local.res = -1,
                                     ![t].errno = "EINVAL"]
             /\ UNCHANGED device
          \/ \E new_format \in DriverAnswers :
               /\ device' = [device EXCEPT !.format = new_format]
               /\ user' = [user EXCEPT ![t].local.pc = "return",
                                       ![t].local.res = 0,
                                       ![t].local.reported = new_format]
     ELSE IF device.filled
     THEN /\ device' = [device EXCEPT !.filled = FALSE]
          /\ user' = [user EXCEPT ![t].local.pc = "return",
                                  ![t].local.res = 0]
     ELSE /\ \E errno \in {"EAGAIN", "EIO"} :
               user' = [user EXCEPT ![t].local.pc = "return",
                                    ![t].local.res = -1,
                                    ![t].errno = errno]
          /\ UNCHANGED device
  /\ UNCHANGED <<sessionVars, libraryVars, returned, connection_count_,
                 device_fd_, wrapper_format_, connection_lock_, nops>>

\* a SetFormat that records what the driver reported whatever it is
SetFormatReturnUnchecked(t) ==
  /\ user[t].local.pc = "return"
  /\ user[t].local.op = "SetFormat"
  /\ IF user[t].local.res < 0
     THEN /\ Returns(t, "ENODEV")
          /\ UNCHANGED wrapper_format_
     ELSE /\ wrapper_format_' = user[t].local.reported
          /\ Returns(t, "OK")
  /\ UNCHANGED <<sessionVars, libraryVars, connection_count_, device_fd_,
                 device_lock_, connection_lock_, device, nops>>

\* SetFormat after its ioctlLocked: -ENODEV when the request failed, -EINVAL
\* when the driver reported another format, else the format is recorded
SetFormatReturn(t) ==
  /\ user[t].local.pc = "return"
  /\ user[t].local.op = "SetFormat"
  /\ IF user[t].local.res < 0
     THEN /\ Returns(t, "ENODEV")
          /\ UNCHANGED wrapper_format_
     ELSE IF ~SameFormat(user[t].local.arg, user[t].local.reported)
     THEN /\ Returns(t, "EINVAL")
          /\ UNCHANGED wrapper_format_
     ELSE /\ wrapper_format_' = user[t].local.reported
          /\ Returns(t, "OK")
  /\ UNCHANGED <<sessionVars, libraryVars, connection_count_, device_fd_,
                 device_lock_, connection_lock_, device, nops>>

\* DequeueRequest after its ioctlLocked: errno tells -EAGAIN from -ENODEV
DequeueRequestReturn(t) ==
  /\ user[t].local.pc = "return"
  /\ user[t].local.op = "DequeueRequest"
  /\ IF user[t].local.res # 0
     THEN IF user[t].errno = "EAGAIN"
          THEN Returns(t, "EAGAIN")
          ELSE Returns(t, "ENODEV")
     ELSE Returns(t, "OK")
  /\ UNCHANGED <<sessionVars, libraryVars, connection_count_, device_fd_,
                 wrapper_format_, device_lock_, connection_lock_, device,
                 nops>>

\* the hardware fills a buffer of the open, configured device
deviceFill ==
  /\ Connected
  /\ device.format # NoFormat
  /\ ~device.filled
  /\ device' = [device EXCEPT !.filled = TRUE]
  /\ UNCHANGED <<sessionVars, libraryVars, returned, connection_count_,
                 device_fd_, wrapper_format_, device_lock_, connection_lock_,
                 user, nops>>

WrapperNext ==
  \/ \E t \in WThreads : Connect(t)
  \/ \E t \in WThreads : ConnectQuery(t)
  \/ \E t \in WThreads : Disconnect(t)
  \/ \E t \in WThreads : SetFormat(t)
  \/ \E t \in WThreads : DequeueRequest(t)
  \/ \E t \in WThreads : ioctlLocked(t)
  \/ \E t \in WThreads : ioctl(t)
  \/ \E t \in WThreads : SetFormatReturn(t)
  \/ \E t \in WThreads : DequeueRequestReturn(t)
  \/ deviceFill

WrapperSpec == Init /\ [][WrapperNext]_vars

(* ====================== format negotiation ============================== *)
\* streams of one stream configuration
MaxStreams == 2

\* StreamFormat(0, 0, 0): the format configureDriverStream starts from
NoStreamFormat == [fourcc |-> "none", width |-> 0, height |-> 0]

\* what a driver can enumerate, in the order GetSupportedFormats builds
\* supported_formats_: the pixel formats of a std::set<uint32_t> by fourcc
\* value ('YU12' < 'BGR4' < 'MJPG' < 'YUYV'), the frame sizes of each by
\* width then height
DriverFormats ==
  <<[fourcc |-> "YU12", width |-> 320, height |-> 240],
    [fourcc |-> "YU12", width |-> 640, height |-> 480],
    [fourcc |-> "BGR4", width |-> 320, height |-> 240],
    [fourcc |-> "BGR4", width |-> 640, height |-> 480],
    [fourcc |-> "MJPG", width |-> 320, height |-> 240],
    [fourcc |-> "MJPG", width |-> 640, height |-> 480],
    [fourcc |-> "YUYV", width |-> 320, height |-> 240],
    [fourcc |-> "YUYV", width |-> 640, height |-> 480]>>

\* supported_formats_ of a driver that enumerates the formats of `driver`
GetSupportedFormats(driver) ==
  SelectSeq(DriverFormats, LAMBDA f : f \in driver)

\* the streams a client asks for
RequestedStreams ==
  [format : {"YCBCR_422_I", "RGBA_8888", "YCBCR_420_888", "RAW16"},
   size : {<<320, 240>>, <<640, 480>>}]

implem_defined_format_ == "BGR4"

HalToV4L2PixelFormat(hal_pixel_format, implementation_defined) ==
  CASE hal_pixel_format = "BLOB" -> "JPEG"
    [] hal_pixel_format = "IMPLEMENTATION_DEFINED" -> implementation_defined
    [] hal_pixel_format = "RGBA_8888" -> "BGR4"
    [] hal_pixel_format = "YCBCR_420_888" -> "YU12"
    [] hal_pixel_format = "YCBCR_422_I" -> "YUYV"
    [] hal_pixel_format = "YCRCB_420_SP" -> "NV21"
    [] hal_pixel_format = "YV12" -> "YV12"
    [] OTHER -> "-1"

\* index (from 0) of the first format with this pixel format and size, or -1
FindMatchingFormat(formats, v4l2_pixel_format, width, height) ==
  LET found == {i \in 1..Len(formats) :
                  /\ formats[i].fourcc = v4l2_pixel_format
                  /\ formats[i].width = width
                  /\ formats[i].height = height}
  IN IF found = {} THEN -1
     ELSE (CHOOSE i \in found : \A j \in found : i <= j) - 1

\* index (from 0) of the first format with this size, or -1
FindFormatByResolution(formats, width, height) ==
  LET found == {i \in 1..Len(formats) :
                  formats[i].width = width /\ formats[i].height = height}
  IN IF found = {} THEN -1
     ELSE (CHOOSE i \in found : \A j \in found : i <= j) - 1

kSupportedFourCCs == <<"YUYV", "MJPG">>

\* the fourccs of kSupportedFourCCs the driver has, in that order
GetQualifiedFormats(supported_formats) ==
  SelectSeq(kSupportedFourCCs, LAMBDA fourcc : fourcc \in supported_formats)

\* the supported streams of the qualified pixel formats; one that has the
\* size of an earlier one is left out when that one is found at index > 0
GetQualifiedStreams(qualified_formats, supported_streams) ==
  LET RECURSIVE Of(_, _, _)
      Of(q, i, qualified_streams) ==
        IF q > Len(qualified_formats) THEN qualified_streams
        ELSE IF i > Len(supported_streams) THEN Of(q + 1, 1, qualified_streams)
        ELSE LET supported_stream == supported_streams[i]
             IN IF supported_stream.fourcc # qualified_formats[q]
                THEN Of(q, i + 1, qualified_streams)
                ELSE IF FindFormatByResolution(qualified_streams,
                                               supported_stream.width,
                                               supported_stream.height) > 0
                THEN Of(q, i + 1, qualified_streams)
                ELSE Of(q, i + 1, Append(qualified_streams, supported_stream))
  IN Of(1, 1, <<>>)

\* qualified_formats_ as initialize() derives it from supported_formats_
QualifiedFormats(supported_formats) ==
  GetQualifiedStreams(
    GetQualifiedFormats({supported_formats[i].fourcc :
                           i \in 1..Len(supported_formats)}),
    supported_formats)

SupportsConversion(from_fourcc, to_fourcc) ==
  CASE from_fourcc = "YUYV" -> to_fourcc = "YU12"
    [] from_fourcc = "YU12" ->
         to_fourcc \in {"YU12", "YV12", "NV21", "RGB4", "BGR4", "JPEG"}
    [] from_fourcc = "MJPG" -> to_fourcc = "YU12"
    [] OTHER -> FALSE

\* CameraDeviceSession::findBestFitFormat: one device format for all the
\* streams of the configuration
findBestFitFormat(streams, supported_formats_, qualified_formats_) ==
  LET formats == {HalToV4L2PixelFormat(streams[i].format,
                                       implem_defined_format_) :
                    i \in 1..Len(streams)}
      format == HalToV4L2PixelFormat(streams[Len(streams)].format,
                                     implem_defined_format_)
      width == CHOOSE w \in {streams[i].size[1] : i \in 1..Len(streams)} :
                 \A i \in 1..Len(streams) : streams[i].size[1] <= w
      height == CHOOSE h \in {streams[i].size[2] : i \in 1..Len(streams)} :
                  \A i \in 1..Len(streams) : streams[i].size[2] <= h
      direct == FindMatchingFormat(supported_formats_, format, width, height)
      index == FindFormatByResolution(qualified_formats_, width, height)
  IN IF Cardinality(formats) = 1 /\ direct >= 0
     THEN [status |-> "OK", format |-> supported_formats_[direct + 1]]
     ELSE IF \E f \in formats : ~SupportsConversion("YU12", f)
     THEN [status |-> "ILLEGAL_ARGUMENT", format |-> NoStreamFormat]
     ELSE IF index >= 0
     THEN [status |-> "OK", format |-> qualified_formats_[index + 1]]
     ELSE [status |-> "ILLEGAL_ARGUMENT", format |-> NoStreamFormat]

\* V4l2Stream::findBestFitFormat: the device format of one stream
v4l2StreamFindBestFitFormat(stream, supported_formats_, qualified_formats_) ==
  LET format == HalToV4L2PixelFormat(stream.format, implem_defined_format_)
      width == stream.size[1]
      height == stream.size[2]
      direct == FindMatchingFormat(supported_formats_, format, width, height)
      index == FindFormatByResolution(qualified_formats_, width, height)
  IN IF direct >= 0
     THEN [status |-> "OK", format |-> supported_formats_[direct + 1]]
     ELSE IF ~SupportsConversion("YU12", format)
     THEN [status |-> "ILLEGAL_ARGUMENT", format |-> NoStreamFormat]
     ELSE IF index >= 0
     THEN [status |-> "OK", format |-> qualified_formats_[index + 1]]
     ELSE [status |-> "ILLEGAL_ARGUMENT", format |-> NoStreamFormat]

\* a session is opened on some driver and the client sends some stream
\* configuration
configureStreamsRequest ==
  /\ input = NoCall
  /\ \E driver \in SUBSET {DriverFormats[i] : i \in 1..Len(DriverFormats)},
        n \in 1..MaxStreams :
       \E streams \in [1..n -> RequestedStreams] :
         input' = [fn |-> "findBestFitFormat",
                   supported_formats_ |-> GetSupportedFormats(driver),
                   qualified_formats_ |->
                     QualifiedFormats(GetSupportedFormats(driver)),
                   streams |-> streams]
  /\ output' = NoCall
  /\ UNCHANGED <<sessionVars, wrapperVars, configurationVars>>

\* configureDriverStream of the HIDL session negotiates the device format
configureDriverStream ==
  /\ input.fn = "findBestFitFormat"
  /\ output' = [fn |-> "CameraDeviceSession::findBestFitFormat", stream |-> 0]
                 @@ findBestFitFormat(input.streams, input.supported_formats_,
                                      input.qualified_formats_)
  /\ UNCHANGED <<sessionVars, wrapperVars, configurationVars, input>>

\* configureDriver of an AIDL stream negotiates the device format of its
\* stream
configureDriver ==
  /\ input.fn = "findBestFitFormat"
  /\ \E i \in 1..Len(input.streams) :
       output' = [fn |-> "V4l2Stream::findBestFitFormat", stream |-> i]
                   @@ v4l2StreamFindBestFitFormat(input.streams[i],
                                                  input.supported_formats_,
                                                  input.qualified_formats_)
  /\ UNCHANGED <<sessionVars, wrapperVars, configurationVars, input>>

NegotiationNext ==
  \/ configureStreamsRequest
  \/ configureDriverStream
  \/ configureDriver

NegotiationSpec == Init /\ [][NegotiationNext]_vars

(* ====================== conversion pipeline ============================= *)
\* an unsigned integer as its eight bytes, the lowest first: the products of
\* GetConvertedSize are taken at the width of their C++ type
Limbs(n) ==
  [i \in 1..8 |-> IF i <= 4 THEN (n \div 256^(i - 1)) % 256 ELSE 0]

\* a + b at 64 bits
Plus(a, b) ==
  LET RECURSIVE From(_, _)
      From(i, carry) ==
        IF i > 8 THEN <<>>
        ELSE LET sum == a[i] + b[i] + carry
             IN <<sum % 256>> \o From(i + 1, sum \div 256)
  IN From(1, 0)

\* a * b at 64 bits
Times(a, b) ==
  LET RECURSIVE Column(_, _)
      Column(j, i) ==
        IF i > j THEN 0 ELSE a[i] * b[j - i + 1] + Column(j, i + 1)
      RECURSIVE From(_, _)
      From(j, carry) ==
        IF j > 8 THEN <<>>
        ELSE LET sum == Column(j, 1) + carry
             IN <<sum % 256>> \o From(j + 1, sum \div 256)
  IN From(1, 0)

\* a / 2
Half(a) ==
  LET RECURSIVE Down(_, _)
      Down(i, remainder) ==
        IF i = 0 THEN <<>>
        ELSE LET value == remainder * 256 + a[i]
             IN Append(Down(i - 1, value % 2), value \div 2)
  IN Down(8, 0)

\* the value as a uint32_t, and as a size_t of a build with 32 or 64 bit
\* pointers
uint32(a) == [i \in 1..8 |-> IF i <= 4 THEN a[i] ELSE 0]

size_t(a, build) == IF build = 32 THEN uint32(a) ELSE a

\* (value + 15) & ~15, in size_t
Align16(value, build) ==
  LET sum == size_t(Plus(value, Limbs(15)), build)
  IN [sum EXCEPT ![1] = sum[1] - (sum[1] % 16)]

GetConvertedSize(fourcc, width, height, build) ==
  IF width[1] % 2 # 0 \/ height[1] % 2 # 0 THEN Limbs(0)
  ELSE CASE fourcc = "YV12" ->
              size_t(Plus(size_t(Times(Align16(width, build), height), build),
                          size_t(Times(Align16(Half(width), build), height),
                                 build)),
                     build)
         [] fourcc \in {"YU12", "NV21"} ->
              Half(uint32(Times(uint32(Times(width, height)), Limbs(3))))
         [] fourcc \in {"BGR4", "RGB4"} ->
              uint32(Times(uint32(Times(width, height)), Limbs(4)))
         [] OTHER -> Limbs(0)

\* FrameBuffer::SetDataSize fails when the data does not fit the buffer; an
\* AllocatedFrameBuffer grows instead
SetDataSize(frame, data_size) ==
  LET buffer_size_ == Limbs(frame.buffer_size)
      overflow == \E i \in 1..8 :
                    /\ data_size[i] > buffer_size_[i]
                    /\ \A j \in (i + 1)..8 : data_size[j] = buffer_size_[j]
  IN IF ~frame.allocated /\ overflow THEN "EINVAL" ELSE "OK"

\* what a call into libyuv or the JPEG encoder can come back with
Library ==
  {[ret |-> "OK", written |-> TRUE], [ret |-> "EINVAL", written |-> FALSE]}

Unsupported == {[ret |-> "EINVAL", written |-> FALSE]}

\* the outcomes of ImageProcessor::ConvertFormat
ConvertFormat(in_frame, out_frame, build) ==
  LET data_size == GetConvertedSize(out_frame.fourcc, Limbs(in_frame.width),
                                    Limbs(in_frame.height), build)
  IN IF in_frame.width % 2 # 0 \/ in_frame.height % 2 # 0 THEN Unsupported
     ELSE IF SetDataSize(out_frame, data_size) # "OK" THEN Unsupported
     ELSE CASE in_frame.fourcc = "YUYV" ->
                 IF out_frame.fourcc = "YU12" THEN Library ELSE Unsupported
            [] in_frame.fourcc = "YU12" ->
                 CASE out_frame.fourcc \in {"YV12", "YU12", "NV21"} ->
                        {[ret |-> "OK", written |-> TRUE]}
                   [] out_frame.fourcc \in {"BGR4", "RGB4", "JPEG"} -> Library
                   [] OTHER -> Unsupported
            [] in_frame.fourcc = "MJPG" ->
                 IF out_frame.fourcc = "YU12" THEN Library ELSE Unsupported
            [] OTHER -> Unsupported

\* the outcomes of ImageProcessor::Scale
Scale(in_frame, out_frame, build) ==
  LET data_size == GetConvertedSize(in_frame.fourcc, Limbs(out_frame.width),
                                    Limbs(out_frame.height), build)
  IN IF in_frame.fourcc # "YU12" THEN Unsupported
     ELSE IF SetDataSize(out_frame, data_size) # "OK" THEN Unsupported
     ELSE Library

\* the outcomes of CachedFrame::Convert on a cache of yu12_frame_
CachedFrameConvert(yu12_frame_, frame, video_hack, build) ==
  LET out_frame == IF video_hack /\ frame.fourcc = "YV12"
                   THEN [frame EXCEPT !.fourcc = "YU12"] ELSE frame
      cache_size == GetConvertedSize(yu12_frame_.fourcc, Limbs(out_frame.width),
                                     Limbs(out_frame.height), build)
      scaled_frame_ == [fourcc |-> "YU12", width |-> out_frame.width,
                        height |-> out_frame.height]
  IN IF yu12_frame_.width # out_frame.width
          \/ yu12_frame_.height # out_frame.height
     THEN IF cache_size = Limbs(0) THEN Unsupported
          ELSE ConvertFormat(scaled_frame_, out_frame, build)
     ELSE ConvertFormat(yu12_frame_, out_frame, build)

\* the outcomes of CachedFrame::ConvertToYU12 on source_frame_
ConvertToYU12(source_frame_, build) ==
  LET cache_size == GetConvertedSize("YU12", Limbs(source_frame_.width),
                                     Limbs(source_frame_.height), build)
      yu12_frame_ == [fourcc |-> "YU12", width |-> source_frame_.width,
                      height |-> source_frame_.height, buffer_size |-> 0,
                      allocated |-> TRUE]
  IN IF cache_size = Limbs(0) THEN Unsupported
     ELSE ConvertFormat(source_frame_, yu12_frame_, build)

\* the outcomes of CachedFrame::CropRotateScale on a cache of yu12_frame_
CropRotateScale(yu12_frame_, rotate_degree) ==
  IF yu12_frame_.height % 2 # 0 \/ yu12_frame_.width % 2 # 0 THEN Unsupported
  ELSE IF yu12_frame_.height > yu12_frame_.width THEN Unsupported
  ELSE IF rotate_degree \notin {90, 270} THEN Unsupported
  ELSE Library

\* the outcomes of CachedFrame::SetSource
SetSource(frame, rotate_degree, build) ==
  UNION {IF res.ret # "OK" THEN {res}
         ELSE IF rotate_degree > 0
         THEN CropRotateScale([fourcc |-> "YU12", width |-> frame.width,
                               height |-> frame.height], rotate_degree)
         ELSE {res} : res \in ConvertToYU12(frame, build)}

\* input frames, and the output frames a caller hands in
Frames ==
  {[fourcc |-> fourcc, width |-> size[1], height |-> size[2]] :
     fourcc \in {"YUYV", "YU12", "MJPG", "BGR4"},
     size \in {<<320, 240>>, <<640, 480>>, <<641, 480>>, <<640, 481>>,
               <<240, 320>>}}

OutFrames ==
  {[fourcc |-> fourcc, width |-> size[1], height |-> size[2],
    buffer_size |-> buffer_size, allocated |-> allocated] :
     fourcc \in {"YU12", "YV12", "NV21", "BGR4", "JPEG", "YUYV"},
     size \in {<<320, 240>>, <<640, 480>>, <<641, 480>>, <<640, 481>>},
     buffer_size \in {1024, 2000000},
     allocated \in BOOLEAN}

callGetConvertedSize ==
  /\ input = NoCall
  /\ \E fourcc \in {"YU12", "YV12", "NV21", "RGB4", "BGR4", "YUYV"},
        width \in {2, 3, 16, 640, 32768, 65536, 1073741824},
        height \in {2, 3, 16, 640, 32768, 65536, 1073741824},
        build \in {32, 64} :
       /\ input' = [fn |-> "GetConvertedSize", fourcc |-> fourcc,
                    width |-> width, height |-> height, build |-> build]
       /\ output' = [fn |-> "GetConvertedSize",
                     size |-> GetConvertedSize(fourcc, Limbs(width),
                                               Limbs(height), build)]
  /\ UNCHANGED <<sessionVars, wrapperVars, configurationVars>>

callConvertFormat ==
  /\ input = NoCall
  /\ \E in \in Frames, out \in OutFrames, build \in {32, 64} :
       /\ input' = [fn |-> "ConvertFormat", in_frame |-> in,
                    out_frame |-> out, build |-> build]
       /\ \E res \in ConvertFormat(in, out, build) :
            output' = [fn |-> "ConvertFormat"] @@ res
  /\ UNCHANGED <<sessionVars, wrapperVars, configurationVars>>

callScale ==
  /\ input = NoCall
  /\ \E in \in Frames, out \in OutFrames, build \in {32, 64} :
       /\ input' = [fn |-> "Scale", in_frame |-> in,
                    out_frame |-> out, build |-> build]
       /\ \E res \in Scale(in, out, build) :
            output' = [fn |-> "Scale"] @@ res
  /\ UNCHANGED <<sessionVars, wrapperVars, configurationVars>>

\* Convert on the cache a successful SetSource left: a YU12 frame of even
\* width and height
callCachedFrameConvert ==
  /\ input = NoCall
  /\ \E in \in Frames, out \in OutFrames, video_hack \in BOOLEAN,
        build \in {32, 64} :
       /\ in.fourcc = "YU12"
       /\ in.width % 2 = 0 /\ in.height % 2 = 0
       /\ input' = [fn |-> "CachedFrame::Convert", in_frame |-> in,
                    out_frame |-> out, video_hack |-> video_hack,
                    build |-> build]
       /\ \E res \in CachedFrameConvert(in, out, video_hack,
                                        build) :
            output' = [fn |-> "CachedFrame::Convert"] @@ res
  /\ UNCHANGED <<sessionVars, wrapperVars, configurationVars>>

callSetSource ==
  /\ input = NoCall
  /\ \E in \in Frames, rotate_degree \in {-2, -1, 0, 90, 180, 270},
        build \in {32, 64} :
       /\ input' = [fn |-> "CachedFrame::SetSource", in_frame |-> in,
                    rotate_degree |-> rotate_degree, build |-> build]
       /\ \E res \in SetSource(in, rotate_degree, build) :
            output' = [fn |-> "CachedFrame::SetSource"] @@ res
  /\ UNCHANGED <<sessionVars, wrapperVars, configurationVars>>

\* CameraTracker::setCaptureSettings on the map of tracked settings: the
\* partial count of each capture id
setCaptureSettings(settings, capture_id) ==
  IF capture_id \in DOMAIN settings
  THEN [settings EXCEPT ![capture_id] = @ + 1]
  ELSE [id \in DOMAIN settings \cup {capture_id} |->
          IF id = capture_id THEN 1 ELSE settings[id]]

\* a request is tracked, as processCaptureRequestEnqueue tracks it, and then
\* tracked again, on a tracker that is empty or holds an earlier request
callTrackCapture ==
  /\ input = NoCall
  /\ \E earlier \in {<<>>} \cup {<<r>> : r \in Requests(1)},
        request \in Requests(1) \cup Requests(2) :
       LET Track(tracker, r) ==
             [capture_list_ |-> trackCapture(tracker.capture_list_, r),
              tracked_settings_ |->
                setCaptureSettings(tracker.tracked_settings_, r.frame)]
           empty == [capture_list_ |-> <<>>, tracked_settings_ |-> <<>>]
           tracker == IF earlier = <<>> THEN empty
                      ELSE Track(empty, earlier[1])
       IN /\ request.outputs > 0
          /\ request.defect = "none"
          /\ \A i \in 1..Len(earlier) :
               earlier[i].outputs > 0 /\ earlier[i].defect = "none"
          /\ input' = [fn |-> "trackCapture", tracker |-> tracker,
                       request |-> request]
          /\ output' = [fn |-> "trackCapture",
                        once |-> Track(tracker, request),
                        twice |-> Track(Track(tracker, request), request)]
  /\ UNCHANGED <<sessionVars, wrapperVars, configurationVars>>

kStandardSizes ==
  {<<2592, 1944>>, <<1920, 1080>>, <<1600, 1200>>, <<1280, 960>>,
   <<1280, 720>>, <<1024, 768>>, <<640, 480>>, <<320, 240>>}

\* V4L2Wrapper::GetFormatFrameSizes on a stepwise or continuous answer of
\* VIDIOC_ENUM_FRAMESIZES: each standard size within the range, rounded up
\* to a whole number of steps above the minimum
GetFormatFrameSizes(stepwise) ==
  {<<stepwise.min_width
       + ((size[1] - stepwise.min_width + stepwise.step_width - 1)
            \div stepwise.step_width) * stepwise.step_width,
     stepwise.min_height
       + ((size[2] - stepwise.min_height + stepwise.step_height - 1)
            \div stepwise.step_height) * stepwise.step_height>> :
     size \in {standard \in kStandardSizes :
                 /\ ~(standard[1] < stepwise.min_width
                        \/ standard[2] < stepwise.min_height)
                 /\ ~(standard[1] > stepwise.max_width
                        \/ standard[2] > stepwise.max_height)}}

\* the frame sizes of a pixel format are asked of a driver with a size
\* range
callGetFormatFrameSizes ==
  /\ input = NoCall
  /\ \E stepwise \in [min_width : {16, 160, 320},
                       max_width : {640, 1920, 2592},
                       step_width : {1, 16, 32},
                       min_height : {16, 120, 240},
                       max_height : {480, 1080, 1944},
                       step_height : {1, 8, 32}] :
       /\ input' = [fn |-> "GetFormatFrameSizes", stepwise |-> stepwise]
       /\ output' = [fn |-> "GetFormatFrameSizes",
                     sizes |-> GetFormatFrameSizes(stepwise)]
  /\ UNCHANGED <<sessionVars, wrapperVars, configurationVars>>

\* V4l2CameraDeviceSession::processCaptureRequestEnqueue over the streams
\* of stream_map_: each output buffer in turn is looked up and handed to
\* V4l2Stream::processCaptureBuffer (importBuffer, the stream turned on and
\* its pool made available when not started, the front index queued to the
\* driver, the buffer pushed on capture_queue_); the first failure returns
\* at once
processCaptureRequestEnqueue(streams, request) ==
  LET RECURSIVE Enqueue(_, _)
      Enqueue(map, i) ==
        IF i > Len(request.outputBuffers)
        THEN [status |-> "OK", stream_map_ |-> map]
        ELSE LET sb == request.outputBuffers[i]
                 stream == map[sb.streamId]
                 avail == IF stream.started_ THEN stream.available_buffers_
                          ELSE PushAll(stream.available_buffers_, 0, PoolSize)
             IN IF sb.streamId \notin DOMAIN map
                THEN [status |-> "ILLEGAL_ARGUMENT", stream_map_ |-> map]
                ELSE IF ~sb.importable
                THEN [status |-> "INTERNAL_ERROR", stream_map_ |-> map]
                ELSE IF avail = <<>>
                THEN [status |-> "INTERNAL_ERROR",
                      stream_map_ |->
                        [map EXCEPT ![sb.streamId].started_ = TRUE]]
                ELSE Enqueue(
                       [map EXCEPT
                          ![sb.streamId] =
                            [started_ |-> TRUE,
                             available_buffers_ |-> Tail(avail),
                             capture_queue_ |->
                               Append(stream.capture_queue_,
                                      [streamId |-> sb.streamId,
                                       frame |-> request.frame])]],
                       i + 1)
  IN Enqueue(streams, 1)

\* a request of one or two output buffers is enqueued on a session whose
\* streams are stopped, or started with their pool free or in use
callProcessCaptureRequestEnqueue ==
  /\ input = NoCall
  /\ \E ids \in SUBSET StreamIds, n \in 1..MaxK :
     \E streams \in
          [ids -> [started_ : BOOLEAN,
                   available_buffers_ : {<<>>, PushAll(<<>>, 0, PoolSize)},
                   capture_queue_ : {<<>>}]],
        outputBuffers \in
          [1..n -> [streamId : StreamIds, importable : BOOLEAN]] :
       LET request == [frame |-> Uint32(1), outputBuffers |-> outputBuffers]
       IN /\ \A id \in ids : streams[id].started_
                             \/ streams[id].available_buffers_ = <<>>
          /\ input' = [fn |-> "processCaptureRequestEnqueue",
                       stream_map_ |-> streams, request |-> request]
          /\ output' = [fn |-> "processCaptureRequestEnqueue"]
                       @@ processCaptureRequestEnqueue(streams, request)
  /\ UNCHANGED <<sessionVars, wrapperVars, configurationVars>>

ConversionNext ==
  \/ callGetConvertedSize
  \/ callConvertFormat
  \/ callScale
  \/ callCachedFrameConvert
  \/ callSetSource
  \/ callTrackCapture
  \/ callGetFormatFrameSizes
  \/ callProcessCaptureRequestEnqueue
ConversionSpec == Init /\ [][ConversionNext]_vars

(* ============ stream configurations of the AIDL session ================= *)
\* the stream lists the framework may pass to configureStreams: up to one
\* stream more than there are nodes, on as many ids, of the use cases and
\* formats findBestStreamConfiguration tells apart; a stream list may be one
\* that StreamConfigurationSupported refuses
RequestedConfigurations ==
  LET ids == 1..(Len(ConfigStreams) + 1)
      Stream == [id : ids, useCase : {"STILL_CAPTURE", "PREVIEW"},
                 format : {"BLOB", "IMPLEMENTATION_DEFINED"}]
  IN [supported : BOOLEAN,
      streams : UNION {[1..n -> Stream] : n \in 0..(Len(ConfigStreams) + 1)}]

\* V4l2CameraDeviceSession::configureStreamsVerification on an open session:
\* the stream list is supported, there are nodes enough for it, and a
\* requested stream that exists is compatible (isCompatible)
aidlConfigureStreamsVerification(list, map, requested) ==
  IF ~requested.supported \/ requested.streams = <<>>
  THEN "ILLEGAL_ARGUMENT"
  ELSE IF Len(requested.streams) > Len(list) + Cardinality(DOMAIN map)
  THEN "INTERNAL_ERROR"
  ELSE IF \E i \in 1..Len(requested.streams) :
            /\ requested.streams[i].id \in DOMAIN map
            /\ requested.streams[i].format
                 # map[requested.streams[i].id].stream_.format
  THEN "ILLEGAL_ARGUMENT"
  ELSE "OK"

\* a clean that drops the old streams and does not give their nodes back
aidlConfigureStreamsCleanForgetful(list, map, requested) ==
  LET reused == {requested.streams[i].id : i \in 1..Len(requested.streams)}
      aux == DOMAIN map \ reused
  IN {[config_ |-> list,
       stream_map_ |-> [id \in DOMAIN map \ aux |-> map[id]],
       cleaned |-> Cardinality(aux)]}

\* V4l2CameraDeviceSession::configureStreamsClean: the streams that are not
\* requested again are erased from stream_map_ and their configurations
\* pushed back on config_.streams, in the order of the unordered_map, which
\* is any order: the set of the outcomes
aidlConfigureStreamsClean(list, map, requested) ==
  LET reused == {requested.streams[i].id : i \in 1..Len(requested.streams)}
      aux == DOMAIN map \ reused
      RECURSIVE Orders(_)
      Orders(S) ==
        IF S = {} THEN {<<>>}
        ELSE UNION {{<<id>> \o rest : rest \in Orders(S \ {id})} : id \in S}
  IN {[config_ |->
         list \o [k \in 1..Len(order) |-> map[order[k]].config_],
       stream_map_ |-> [id \in DOMAIN map \ aux |-> map[id]],
       cleaned |-> Cardinality(aux)] : order \in Orders(aux)}

\* V4l2CameraDeviceSession::findBestStreamConfiguration: the first available
\* configuration whose usage suits the stream, else the first one; it is
\* taken out of the list.  With an empty list the iterator that is read and
\* erased is the end of the list: undefined, here any node's configuration.
findBestStreamConfiguration(list, stream, wild) ==
  LET Suits(config) ==
        \/ /\ stream.useCase = "STILL_CAPTURE"
           /\ config.usage = "Capture"
        \/ /\ stream.useCase = "PREVIEW"
           /\ stream.format # "BLOB"
           /\ config.usage = "Preview"
        \/ /\ stream.format = "IMPLEMENTATION_DEFINED"
           /\ config.usage = "Preview"
        \/ /\ stream.format = "BLOB"
           /\ config.usage = "Capture"
      suiting == {i \in 1..Len(list) : Suits(list[i])}
      it == IF suiting = {} THEN 1
            ELSE CHOOSE i \in suiting : \A j \in suiting : i <= j
  IN IF list = <<>>
     THEN [undefined |-> TRUE, res |-> ConfigStreams[wild], config_ |-> list]
     ELSE [undefined |-> FALSE, res |-> list[it],
           config_ |-> [k \in 1..(Len(list) - 1) |->
                          IF k < it THEN list[k] ELSE list[k + 1]]]

\* V4l2CameraDeviceSession::configureDriverStreams: each requested stream in
\* turn is updated when it exists, else it gets a configuration and a
\* V4l2Stream is created on it; when the creation fails (the stream the
\* driver refuses is "failing") the configuration is pushed back and the
\* call returns INTERNAL_ERROR
aidlConfigureDriverStreams(list, map, requested, failing, wild) ==
  LET RECURSIVE Configure(_, _, _, _)
      Configure(l, m, i, undefined) ==
        IF i > Len(requested.streams)
        THEN [status |-> "OK", config_ |-> l, stream_map_ |-> m,
              undefined |-> undefined]
        ELSE LET stream == requested.streams[i]
                 best == findBestStreamConfiguration(l, stream, wild)
             IN IF stream.id \in DOMAIN m
                THEN Configure(l, m, i + 1, undefined)
                ELSE IF stream.id = failing
                THEN [status |-> "INTERNAL_ERROR",
                      config_ |-> Append(best.config_, best.res),
                      stream_map_ |-> m,
                      undefined |-> undefined \/ best.undefined]
                ELSE Configure(
                       best.config_,
                       [id \in DOMAIN m \cup {stream.id} |->
                          IF id = stream.id
                          THEN [config_ |-> best.res, stream_ |-> stream]
                          ELSE m[id]],
                       i + 1, undefined \/ best.undefined)
  IN Configure(list, map, 1, FALSE)

\* V4l2CameraDeviceSession::configureStreams on an open session: the
\* verification, the clean, the configuration of the driver streams
sessionConfigureStreams ==
  /\ ~configured.undefined
  /\ \E requested \in RequestedConfigurations :
       LET status == aidlConfigureStreamsVerification(config_, stream_map_,
                                                      requested)
       IN IF status # "OK"
          THEN /\ configured' = [status |-> status, undefined |-> FALSE,
                                 cleaned |-> 0]
               /\ UNCHANGED <<config_, stream_map_>>
          ELSE \E clean \in aidlConfigureStreamsClean(config_, stream_map_,
                                                      requested),
                  failing \in 0..(Len(ConfigStreams) + 1),
                  wild \in 1..Len(ConfigStreams) :
                 LET driver == aidlConfigureDriverStreams(
                                 clean.config_, clean.stream_map_, requested,
                                 failing, wild)
                 IN /\ wild # 1 => driver.undefined
                    /\ failing # 0 => driver.status # "OK"
                    /\ config_' = driver.config_
                    /\ stream_map_' = driver.stream_map_
                    /\ configured' = [status |-> driver.status,
                                      undefined |-> driver.undefined,
                                      cleaned |-> clean.cleaned]
  /\ UNCHANGED <<sessionVars, wrapperVars, input, output>>

ConfigurationSpec == Init /\ [][sessionConfigureStreams]_vars

(* ================================= C1 =================================== *)
\* C1: every accepted and tracked request eventually resolves.  A request
\* resolves in processCaptureResult when the last of its output buffers is
\* completed by the capture thread or by flush(), so a request that is to
\* resolve stays tracked only while one of its output buffers is still
\* pending in the tracker or in the hands of the capture thread.
C1_EveryRequestResolves ==
  \A i \in 1..Len(capture_list_) :
    \/ Len(capture_list_[i].output_buffers) > 0
    \/ /\ capturePc = "process"
       /\ ToUint32(capture.capture_id) = capture_list_[i].id

Pending(streamId, frame) ==
  \/ \E i \in 1..Len(capture_list_) :
       \E k \in 1..Len(capture_list_[i].output_buffers) :
         /\ capture_list_[i].output_buffers[k].streamId = streamId
         /\ capture_list_[i].output_buffers[k].frame = frame
  \/ \E i \in 1..Len(capture_queue_) :
       /\ capture_queue_[i].streamId = streamId
       /\ capture_queue_[i].frame = frame

Held(streamId, frame) ==
  /\ capturePc = "process"
  /\ capture.buffer.streamId = streamId
  /\ capture.buffer.frame = frame

Saved(streamId, frame) ==
  {ik \in (1..Len(capture_list_)) \X (1..MaxK) :
     /\ ik[2] <= Len(capture_list_[ik[1]].output_results)
     /\ capture_list_[ik[1]].output_results[ik[2]].streamId = streamId
     /\ capture_list_[ik[1]].output_results[ik[2]].frame = frame}

Handed(streamId, frame) ==
  {jk \in (1..Len(results)) \X (1..MaxK) :
     /\ results[jk[1]].by = "result"
     /\ jk[2] <= Len(results[jk[1]].buffers)
     /\ results[jk[1]].buffers[jk[2]].streamId = streamId
     /\ results[jk[1]].buffers[jk[2]].frame = frame}

OutputsOf(frame) ==
  LET i == CHOOSE i \in 1..Len(accepted) : accepted[i].frame = frame
  IN accepted[i].outputs

\* C4: with no flush, once the capture thread has completed every output
\* buffer of a request, the request has been reported complete: the tracker
\* holds no request whose K output buffers have all been completed by the
\* capture thread; every request is reported at most once, with exactly its
\* K output buffers, and untracked at most once.
C4_CompleteExactlyOnce ==
  /\ \A i \in 1..Len(capture_list_) :
       LET saved == capture_list_[i].output_results IN
       ~(/\ Len(saved) = OutputsOf(capture_list_[i].id)
         /\ \A k \in 1..Len(saved) :
              saved[k].by = "capture" /\ saved[k].fault # "dequeue")
  /\ \A j \in 1..Len(results) :
       results[j].by = "result" =>
         /\ Len(results[j].buffers) = OutputsOf(results[j].frame)
         /\ \A h \in 1..Len(results) :
              (results[h].by = "result" /\ results[h].frame = results[j].frame)
                => h = j
  /\ \A j, h \in 1..Len(untracked) : untracked[j] = untracked[h] => j = h

(* ================================= C5 =================================== *)
\* the driver buffer the stream's capture thread has dequeued and not yet
\* pushed back to available_buffers_
HeldIndex(index) ==
  /\ capturePc \in {"lock", "process"}
  /\ capture.res = "OK"
  /\ capture.index = index

\* close() has been called on the AIDL session
CloseCalled ==
  \/ controlPc \in {"streamDestroy", "streamJoin", "closed"}
  \/ controlPc \in {"streamFlush", "streamFlushLoop"} /\ control.op = "close"

\* C5: in the AIDL stream, under every interleaving of processCaptureBuffer,
\* flush() and the capture thread, available_buffers_ never holds an index
\* twice, nor an index that is queued to the hardware (in-flight) or held by
\* the capture thread.
C5_IndexInOneState ==
  (deployment = "aidl" /\ ~CloseCalled) =>
    /\ \A i, j \in 1..Len(available_buffers_) :
         available_buffers_[i] = available_buffers_[j] => i = j
    /\ \A i \in 1..Len(available_buffers_) :
         /\ ~InSeq(available_buffers_[i], incoming)
         /\ ~InSeq(available_buffers_[i], done)
         /\ ~HeldIndex(available_buffers_[i])

(* ================================= C6 =================================== *)
\* position in the callback log of the result handing over this buffer, or 0
HandedAt(streamId, frame) ==
  IF Handed(streamId, frame) = {} THEN 0
  ELSE (CHOOSE jk \in Handed(streamId, frame) : TRUE)[1]

\* C6: for each stream, when an output buffer of an accepted request has
\* been handed to the client, every output buffer of the same stream of a
\* request accepted earlier has been handed over too, and not later.
C6_DeliveredInSubmissionOrder ==
  \A a, b \in 1..Len(accepted) :
    \A streamId \in 1..MaxK :
      (/\ a < b
       /\ streamId <= accepted[a].outputs
       /\ streamId <= accepted[b].outputs
       /\ HandedAt(streamId, accepted[b].frame) # 0)
      => /\ HandedAt(streamId, accepted[a].frame) # 0
         /\ HandedAt(streamId, accepted[a].frame)
              <= HandedAt(streamId, accepted[b].frame)

(* ================================= C7 =================================== *)
\* a step that is one whole configureStreams call on the HIDL session
ConfigureStep ==
  /\ deployment = "hidl"
  /\ controlPc = "idle"
  /\ controlPc' = "idle"
  /\ nctl' = nctl + 1

\* C7: a configureStreams call made while requests are tracked is refused
\* with INTERNAL_ERROR and leaves the stream state, the buffer pool, the
\* format and the tracked streams as they were; with no request tracked, an
\* open session accepts a valid configuration the driver supports.
C7_RefusedWhileTracked ==
  [][ConfigureStep =>
       /\ hasActiveCapture(capture_list_) =>
            /\ lastConfigure'.status = "INTERNAL_ERROR"
            /\ UNCHANGED <<format_, streaming, incoming, done, started_,
                           v4l2_buffers_, tracked_streams_,
                           previous_settings_>>
       /\ (/\ ~hasActiveCapture(capture_list_)
           /\ initStatus = "OK"
           /\ lastConfigure'.acceptable)
          => lastConfigure'.status = "OK"]_vars

\* a configuration refused while requests were tracked has been requested
\* again, with the tracker empty, and accepted
C7_Witness ==
  /\ deployment = "hidl"
  /\ lastConfigure.retry
  /\ ~lastConfigure.active
  /\ lastConfigure.status = "OK"
  /\ results # <<>>

(* ================================= C8 =================================== *)
\* C8: a DequeueRequest failure other than not-ready is fatal to the
\* session: once the capture thread holds such a failure, the session ends
\* up closed (or the process died).
C8_HardFailureIsFatal ==
  (capturePc \in {"result", "process", "lock"} /\ capture.res = "ENODEV")
    ~> (closed_ \/ crashed)

(* ================================= C9 =================================== *)
\* C9: an output buffer whose conversion failed at any step (mapping the
\* destination, canonicalising the source, sizing, scaling, converting the
\* format) is handed over or saved with error status, never with OK.
C9_ConversionFaultIsError ==
  /\ \A j \in 1..Len(results) : \A k \in 1..Len(results[j].buffers) :
       results[j].buffers[k].fault # "none"
         => results[j].buffers[k].status = "ERROR"
  /\ \A i \in 1..Len(capture_list_) :
       \A k \in 1..Len(capture_list_[i].output_results) :
         capture_list_[i].output_results[k].fault # "none"
           => capture_list_[i].output_results[k].status = "ERROR"

(* ================================ C10 =================================== *)
\* C10: a flush() or close() issued while requests are pending completes
\* even if the hardware never completes another buffer: the control thread
\* never stays for ever at the Autolock of flush_queue_lock_.  A run where
\* the process died, or where the client thread is stuck in the ERROR_DEVICE
\* path, is not held against the claim.
C10_FlushObservedPromptly ==
  (controlPc = "flushLockQueue")
    ~> (controlPc # "flushLockQueue" \/ crashed \/ clientPc = "closing")
(* ================================ C11 =================================== *)
\* C11: the connection of the wrapper is reference-counted.  Before and
\* after every step the device is open exactly when connection_count_ > 0
\* and the count is not negative; the device is opened only as the count
\* goes from 0 to 1 and closed only as it goes from 1 to 0; a Connect on an
\* open device only adds one to the count; a Connect whose open() failed
\* leaves the count as it was.
C11_ConnectionRefCounted ==
  [][/\ Connected <=> connection_count_ > 0
     /\ device_fd_' = "open" <=> connection_count_' > 0
     /\ connection_count_ >= 0
     /\ connection_count_' >= 0
     /\ (~Connected /\ device_fd_' = "open")
          => (connection_count_ = 0 /\ connection_count_' = 1)
     /\ (Connected /\ device_fd_' = "closed")
          => (connection_count_ = 1 /\ connection_count_' = 0)
     /\ \A t \in WThreads :
          /\ (Connect(t) /\ Connected)
               => /\ connection_count_' = connection_count_ + 1
                  /\ UNCHANGED <<device_fd_, wrapper_format_, device>>
          /\ (Connect(t) /\ ~Connected /\ device_fd_' = "closed")
               => connection_count_' = connection_count_]_vars

\* two connections were made and one of them was given back: the device is
\* still open for the other
C11_Witness ==
  /\ nops >= 3
  /\ returned.op = "Disconnect"
  /\ connection_count_ = 1
  /\ Connected

(* ================================ C12 =================================== *)
\* C12: no ioctl is issued on a handle that another thread has closed: a
\* thread that holds device_lock_ and is about to issue its ioctl finds the
\* device open.
C12_NoIoctlOnClosedHandle ==
  \A t \in WThreads : user[t].local.pc = "ioctl" => Connected

(* ================================ C13 =================================== *)
\* C13: SetFormat returns success without a device request when the format
\* asked for equals the recorded one, and goes to the device otherwise; after
\* the device request it returns success only when the request succeeded and
\* the driver reported the pixel format, width and height asked for, and
\* then records that format; when it returns an error the recorded format
\* is unchanged.
C13_SetFormatChecksDevice ==
  [][/\ (/\ nops' = nops + 1
         /\ user' = user
         /\ returned'.op = "SetFormat")
        => /\ SameFormat(returned'.arg, wrapper_format_)
           /\ returned'.value = "OK"
           /\ UNCHANGED <<device, wrapper_format_, device_lock_>>
     /\ \A t \in WThreads :
          /\ (/\ user[t].local.pc = "idle"
              /\ user'[t].local.pc = "lock"
              /\ user'[t].local.op = "SetFormat")
             => ~SameFormat(user'[t].local.arg, wrapper_format_)
          /\ (/\ user[t].local.pc = "return"
              /\ user[t].local.op = "SetFormat"
              /\ user'[t].local.pc = "idle")
             => LET asked == user[t].local.arg
                    reported == user[t].local.reported
                IN IF returned'.value = "OK"
                   THEN /\ user[t].local.res = 0
                        /\ reported.fourcc = asked.fourcc
                        /\ reported.width = asked.width
                        /\ reported.height = asked.height
                        /\ SameFormat(wrapper_format_', asked)
                   ELSE UNCHANGED wrapper_format_]_vars

\* with one format negotiated, another was asked for, the driver reported
\* something else, and SetFormat returned -EINVAL keeping the first
C13_Witness ==
  /\ returned.op = "SetFormat"
  /\ returned.value = "EINVAL"
  /\ wrapper_format_ # NoFormat
  /\ ~SameFormat(returned.arg, wrapper_format_)

(* ================================ C14 =================================== *)
\* C14: a DequeueRequest that returns while the device is not open returns
\* the hard failure -ENODEV, and one that returns the not-ready -EAGAIN does
\* so with the device open and no filled buffer waiting.
C14_NotReadyOnlyWhenOpen ==
  [][(/\ returned'.op = "DequeueRequest"
      /\ \/ nops' = nops + 1 /\ user' = user
         \/ \E t \in WThreads : /\ user[t].local.pc = "return"
                                /\ user[t].local.op = "DequeueRequest"
                                /\ user'[t].local.pc = "idle")
     => /\ ~Connected => returned'.value = "ENODEV"
        /\ returned'.value = "EAGAIN" => (Connected /\ ~device.filled)]_vars
(* ================================ C15 =================================== *)
\* a step that is the submission of a capture request carrying no output
\* buffer, or carrying no settings while the session has none stored
RejectStep ==
  /\ nreq' = nreq + 1
  /\ lastRequest'.n = nreq'

\* C15: on an open session, processCaptureRequest answers ILLEGAL_ARGUMENT to
\* a request without output buffer and to a request without settings when no
\* earlier settings are stored; on any session such a request is not tracked
\* (tracker, capture queue) and nothing of it is queued to the hardware.
C15_RejectsEmptyRequests ==
  [][RejectStep =>
       /\ (deployment = "hidl" /\ initStatus = "OK")
            => lastRequest'.status = "ILLEGAL_ARGUMENT"
       /\ (deployment = "aidl" /\ aidlInitStatus = "OK")
            => lastRequest'.status = "ILLEGAL_ARGUMENT"
       /\ UNCHANGED <<capture_list_, capture_queue_, accepted, incoming,
                      done, available_buffers_, tracked_settings_>>]_vars

\* after an accepted request and a reconfiguration that emptied the stored
\* settings, the second request came without settings and was refused
C15_Witness ==
  /\ deployment = "hidl"
  /\ accepted # <<>>
  /\ lastRequest.n = 2
  /\ lastRequest.outputs > 0
  /\ ~lastRequest.settings
  /\ lastRequest.status = "ILLEGAL_ARGUMENT"
(* ================================ C16 =================================== *)
\* C16: whenever the negotiation succeeds with device format F, every stream
\* it was run for can be served from F: F has the pixel format and the size
\* of the stream, or F converts to YU12 and YU12 converts to the pixel
\* format of the stream.
C16_SelectedFormatServesStreams ==
  LET Serves(F, stream) ==
        LET format == HalToV4L2PixelFormat(stream.format,
                                           implem_defined_format_)
        IN \/ /\ F.fourcc = format
              /\ F.width = stream.size[1]
              /\ F.height = stream.size[2]
           \/ /\ SupportsConversion(F.fourcc, "YU12")
              /\ SupportsConversion("YU12", format)
  IN (output # NoCall /\ input.fn = "findBestFitFormat"
        /\ output.status = "OK")
     => \A i \in 1..Len(input.streams) :
          (output.stream \in {0, i})
            => Serves(output.format, input.streams[i])

(* ================================ C17 =================================== *)
\* C17: on a driver that has only format A, at 320x240 and at 640x480, a
\* configuration of a 640x480 stream in A and a 640x480 stream in B, where
\* A converts to YU12 and YU12 converts to B, is negotiated successfully
\* with A at 640x480 as the device format.
C17_PicksDeviceFormatForMixedStreams ==
  LET streams == input.streams
      A == HalToV4L2PixelFormat(streams[1].format, implem_defined_format_)
      B == HalToV4L2PixelFormat(streams[2].format, implem_defined_format_)
  IN (/\ input.fn = "findBestFitFormat"
      /\ output # NoCall
      /\ output.fn = "CameraDeviceSession::findBestFitFormat"
      /\ Len(streams) = 2
      /\ streams[1].size = <<640, 480>>
      /\ streams[2].size = <<640, 480>>
      /\ A # B
      /\ SupportsConversion(A, "YU12")
      /\ SupportsConversion("YU12", B)
      /\ input.supported_formats_ =
           <<[fourcc |-> A, width |-> 320, height |-> 240],
             [fourcc |-> A, width |-> 640, height |-> 480]>>)
     => /\ output.status = "OK"
        /\ output.format = [fourcc |-> A, width |-> 640, height |-> 480]
(* ================================ C18 =================================== *)
\* C18: a sizing or conversion call with an odd width or an odd height, on
\* its source frame or on its destination frame, returns the unsupported
\* result (size 0, or an error) and writes no output.
C18_OddDimensionsUnsupported ==
  LET Odd(frame) == frame.width % 2 # 0 \/ frame.height % 2 # 0
  IN /\ (input.fn = "GetConvertedSize"
           /\ (input.width % 2 # 0 \/ input.height % 2 # 0))
        => output.size = Limbs(0)
     /\ (input.fn \in {"ConvertFormat", "Scale", "CachedFrame::Convert"}
           /\ (Odd(input.in_frame) \/ Odd(input.out_frame)))
        => (output.ret # "OK" /\ ~output.written)
     /\ (input.fn = "CachedFrame::SetSource" /\ Odd(input.in_frame))
        => (output.ret # "OK" /\ ~output.written)

(* ================================ C19 =================================== *)
\* C19: for YUV420, YVU420, NV21, RGB32 and BGR32 and every even width and
\* height, GetConvertedSize returns the exact byte size of the frame, which
\* is greater than zero, whatever the build.
C19_ConvertedSizeExact ==
  (/\ input.fn = "GetConvertedSize"
   /\ input.fourcc \in {"YU12", "YV12", "NV21", "RGB4", "BGR4"}
   /\ input.width % 2 = 0
   /\ input.height % 2 = 0)
  => LET width == Limbs(input.width)
         height == Limbs(input.height)
         Aligned(v) == LET sum == Plus(v, Limbs(15))
                       IN [sum EXCEPT ![1] = sum[1] - (sum[1] % 16)]
         exact ==
           CASE input.fourcc = "YV12" ->
                  Plus(Times(Aligned(width), height),
                       Times(Aligned(Half(width)), height))
             [] input.fourcc \in {"YU12", "NV21"} ->
                  Half(Times(Times(width, height), Limbs(3)))
             [] OTHER -> Times(Times(width, height), Limbs(4))
     IN /\ output.size # Limbs(0)
        /\ output.size = exact

(* ================================ C20 =================================== *)
\* C20: SetSource with a rotate_degree other than -1, 90 and 270 returns an
\* error.
C20_SetSourceRejectsOtherRotations ==
  (input.fn = "CachedFrame::SetSource"
     /\ input.rotate_degree \notin {-1, 90, 270})
  => output.ret # "OK"
(* ================================ C21 =================================== *)
\* C21: the qualified streams of a session are exactly the supported formats
\* whose pixel format is qualified, those of an earlier pixel format of
\* kSupportedFourCCs first, one per size: no two of them have the same width
\* and height.
C21_QualifiedStreamsOnePerSize ==
  input.fn = "findBestFitFormat"
  => LET q == input.qualified_formats_
         Rank(fourcc) == CHOOSE k \in 1..Len(kSupportedFourCCs) :
                           kSupportedFourCCs[k] = fourcc
     IN /\ \A i \in 1..Len(q) :
             /\ q[i].fourcc \in {kSupportedFourCCs[k] :
                                   k \in 1..Len(kSupportedFourCCs)}
             /\ \E j \in 1..Len(input.supported_formats_) :
                  input.supported_formats_[j] = q[i]
        /\ \A i, j \in 1..Len(q) :
             i < j => /\ Rank(q[i].fourcc) <= Rank(q[j].fourcc)
                      /\ ~(/\ q[i].width = q[j].width
                           /\ q[i].height = q[j].height)

(* ================================ C22 =================================== *)
\* C22: tracking a request twice leaves the tracker as tracking it once:
\* the same state, with a single capture of that frame number.
C22_TrackCaptureIdempotent ==
  input.fn = "trackCapture"
  => /\ output.twice = output.once
     /\ Cardinality({i \in 1..Len(output.twice.capture_list_) :
                       output.twice.capture_list_[i].id
                         = input.request.frame}) = 1

(* ================================ C23 =================================== *)
\* C23: every size GetFormatFrameSizes returns for a size range is one the
\* device supports: in width and in height it is a standard size rounded up
\* by less than one step, it lies a whole number of steps above the minimum,
\* and it lies between the minimum and the maximum.
C23_FrameSizesSupported ==
  input.fn = "GetFormatFrameSizes"
  => LET r == input.stepwise
     IN \A size \in output.sizes :
          /\ \E standard \in kStandardSizes :
               /\ standard[1] <= size[1]
               /\ size[1] < standard[1] + r.step_width
               /\ standard[2] <= size[2]
               /\ size[2] < standard[2] + r.step_height
          /\ (size[1] - r.min_width) % r.step_width = 0
          /\ (size[2] - r.min_height) % r.step_height = 0
          /\ r.min_width <= size[1] /\ size[1] <= r.max_width
          /\ r.min_height <= size[2] /\ size[2] <= r.max_height

(* ================================ C29 =================================== *)
\* C29: between the calls of SetFormat on an open device, whether they
\* succeeded or failed, the format the wrapper has recorded is the one the
\* device is in, which is what a SetFormat skipped for an equal format
\* relies on.
C29_RecordedFormatIsDeviceFormat ==
  (/\ Connected
   /\ \A t \in WThreads : user[t].local.pc = "idle"
   /\ wrapper_format_ # NoFormat)
  => SameFormat(wrapper_format_, device.format)

(* ================================ C24 =================================== *)
\* C24: the capture thread never reads a hardware buffer that has been
\* queued to the driver again since the thread dequeued it: while the
\* thread converts from v4l2_buffers_[index], the driver holds that buffer
\* neither to fill it nor filled.
C24_DequeuedBufferNotRequeued ==
  (deployment = "hidl" /\ capturePc = "process" /\ capture.res = "OK")
  => /\ ~InSeq(capture.index, incoming)
     /\ ~InSeq(capture.index, done)

(* ================================ C25 =================================== *)
\* C25: when the capture thread has taken an output buffer of a tracked
\* capture and a dequeued hardware buffer to fill it from, and looks up the
\* settings of the capture, they have been recorded.
C25_SettingsRecordedBeforeLookup ==
  (deployment = "hidl" /\ capturePc = "process" /\ capture.res = "OK")
  => ToUint32(capture.capture_id) \in tracked_settings_

(* ================================ C26 =================================== *)
\* C26: no thread of the HIDL session tries to acquire a session lock it
\* already holds: the client thread never stands in flush(), called by
\* close() on the device-error path, before flush_queue_lock_ while it
\* holds flush_queue_lock_ itself.
C26_NoLockTakenTwice ==
  ~(/\ deployment = "hidl"
    /\ clientPc = "closing"
    /\ flush_queue_lock_ = "client")

(* ================================ C27 =================================== *)
\* C27: the mutexes of the AIDL stream are taken in one order: in no
\* reachable state does processCaptureBuffer hold v4l2_buffer_mutex_ and
\* wait for capture_mutex_ while V4l2Stream::flush holds capture_mutex_ and
\* waits for v4l2_buffer_mutex_.
C27_StreamMutexesInOneOrder ==
  ~(/\ deployment = "aidl"
    /\ clientPc = "push"
    /\ v4l2_buffer_mutex_ = "client"
    /\ controlPc = "streamFlushLoop"
    /\ capture_queue_ = <<>>
    /\ capture_mutex_ = "control")

(* ================================ C28 =================================== *)
\* C28: the AIDL session accepts a capture request as a whole: when
\* processCaptureRequestEnqueue returns an error no output buffer of the
\* request is in the capture queue of a stream, and when it returns OK every
\* output buffer of the request is.
C28_RequestAcceptedAsAWhole ==
  input.fn = "processCaptureRequestEnqueue"
  => LET map == output.stream_map_
         Queued(id) ==
           Cardinality({k \in 1..Len(map[id].capture_queue_) :
                          map[id].capture_queue_[k].frame
                            = input.request.frame})
         Asked(id) ==
           Cardinality({k \in 1..Len(input.request.outputBuffers) :
                          input.request.outputBuffers[k].streamId = id})
     IN IF output.status = "OK"
        THEN \A id \in StreamIds :
               Asked(id) = IF id \in DOMAIN map THEN Queued(id) ELSE 0
        ELSE \A id \in DOMAIN map : Queued(id) = 0

(* ================================ C30 =================================== *)
\* C30: after any sequence of configureStreams calls on an open session,
\* succeeded or failed, every node's configuration is either in the list of
\* the available configurations or the configuration of exactly one
\* configured stream, the available configurations and the configured
\* streams together number the nodes, and no configuration was looked up
\* in an empty list.
C30_ConfigurationsConserved ==
  /\ Len(config_) + Cardinality(DOMAIN stream_map_) = Len(ConfigStreams)
  /\ \A k \in 1..Len(ConfigStreams) :
       Cardinality({i \in 1..Len(config_) : config_[i] = ConfigStreams[k]})
       + Cardinality({id \in DOMAIN stream_map_ :
                        stream_map_[id].config_ = ConfigStreams[k]}) = 1
  /\ ~configured.undefined

\* a call that replaced a stream has succeeded and left no configuration
\* available
C30_Witness ==
  /\ configured.status = "OK"
  /\ configured.cleaned > 0
  /\ config_ = <<>>
====
